---- MODULE Spec2Model ----
(***************************************************************************)
(* Model of the todo chatbot backend: the MCP tool registry                *)
(* (app/mcp/tools.py, app/mcp/server.py, app/mcp/schemas.py), the agent    *)
(* runner (app/agent/runner.py), the conversation service                  *)
(* (app/services/conversation.py) and the chat endpoint                    *)
(* (app/routers/chat.py).                                                  *)
(*                                                                         *)
(* Conventions.                                                            *)
(*  - A Python str is a run-length sequence of [ch, n] runs, so lengths    *)
(*    such as 255 and 256 are exact without 256-element tuples.            *)
(*  - Optional[X] is a set: {} is None, {x} is a value.                    *)
(*  - A Python dict is a function from string keys to values.              *)
(*  - A JSON text is [kind, val]: kind "object" carries the dict it        *)
(*    encodes, "array" a non-dict value, "bad" is unparseable text and     *)
(*    "empty" is the empty string.                                         *)
(***************************************************************************)
EXTENDS Integers, Sequences, FiniteSets, TLC

VARIABLES
    todos,          \* table todos: id -> row
    next_todo_id,   \* the serial of todos.id
    clock,          \* datetime.now(timezone.utc), one tick per reading step
    conversations,  \* table conversations: id -> row
    messages,       \* table messages, in insertion order
    req,            \* request slot -> the in-flight chat request's locals
    nreq,           \* chat requests received so far
    ncalls,         \* tool invocations requested by the completion capability so far
    last,           \* the last direct registry call: tool, arguments, result, store before
    api_key,        \* settings.OPENAI_API_KEY is set
    trace           \* per slot: what the run did (submitted lists, dispatches, outcome)

vars ==
    <<todos, next_todo_id, clock, conversations, messages, req, nreq, ncalls, last, api_key,
      trace>>

----------------------------------------------------------------------------
\* Bounds of the model

MaxTasks == 2
MaxOps == 4
MaxRequests == 2
MaxToolCalls == 2
MaxEntries == 3
MaxWords == 3

\* Program constants

TitleMaxLen == 255
DescriptionMaxLen == 2000
SearchMaxLen == 255
LimitDefault == 50
LimitMax == 100
UpdateTitleMaxLen == 200
UpdateDescriptionMaxLen == 2000
CreateTitleMaxLen == 200
CreateDescriptionMaxLen == 2000
HistoryLimit == 50
max_iterations == 10

Users == {"u1", "u2"}

None == {}
Some(x) == {x}
TheVal(o) == CHOOSE x \in o : TRUE

EmptyDict == [k \in {} |-> 0]
HasKey(d, k) == k \in DOMAIN d
SetKey(d, k, v) == [x \in (DOMAIN d) \cup {k} |-> IF x = k THEN v ELSE d[x]]
\* dict.get(k): Optional
Get(d, k) == IF HasKey(d, k) THEN Some(d[k]) ELSE None

----------------------------------------------------------------------------
\* Python strings

Str(c, n) == IF n = 0 THEN <<>> ELSE <<[ch |-> c, n |-> n]>>

RECURSIVE StrLen(_)
StrLen(s) == IF s = <<>> THEN 0 ELSE Head(s).n + StrLen(Tail(s))

RECURSIVE LStrip(_)
LStrip(s) == IF s # <<>> /\ Head(s).ch = " " THEN LStrip(Tail(s)) ELSE s

RECURSIVE RStrip(_)
RStrip(s) ==
    IF s # <<>> /\ s[Len(s)].ch = " " THEN RStrip(SubSeq(s, 1, Len(s) - 1)) ELSE s

\* str.strip()
strip(s) == RStrip(LStrip(s))


\* The characters the model's strings are written in; str.lower() on them
Lower(c) == CASE c = "A" -> "a" [] c = "B" -> "b" [] OTHER -> c

RECURSIVE Expand(_)
Expand(s) ==
    IF s = <<>> THEN <<>>
    ELSE IF Head(s).n = 1 THEN <<Head(s).ch>> \o Expand(Tail(s))
    ELSE <<Head(s).ch>> \o Expand(<<[ch |-> Head(s).ch, n |-> Head(s).n - 1]>> \o Tail(s))

\* SQL LIKE on character sequences, case folded (ILIKE): % is any run, _ any one character
RECURSIVE LikeMatch(_, _)
LikeMatch(p, s) ==
    IF p = <<>> THEN s = <<>>
    ELSE IF Head(p) = "%"
         THEN LikeMatch(Tail(p), s) \/ (s # <<>> /\ LikeMatch(p, Tail(s)))
         ELSE /\ s # <<>>
              /\ (Head(p) = "_" \/ Lower(Head(p)) = Lower(Head(s)))
              /\ LikeMatch(Tail(p), Tail(s))

\* Todo.title.ilike(f"%{search}%")
ilike(title, search) == LikeMatch(<<"%">> \o Expand(search) \o <<"%">>, Expand(title))

----------------------------------------------------------------------------
\* app/mcp/schemas.py: the pydantic input models. Each returns None when the
\* constructor raises ValidationError, else Some(validated input).

IsUUID(x) == x \in Users

AddTaskInput(a) ==
    LET okUser == HasKey(a, "user_id") /\ IsUUID(a.user_id)
        okTitle == /\ HasKey(a, "title")
                   /\ StrLen(a.title) >= 1
                   /\ StrLen(a.title) <= TitleMaxLen
                   /\ strip(a.title) # <<>>
        okDesc == HasKey(a, "description") => StrLen(a.description) <= DescriptionMaxLen
    IN  IF okUser /\ okTitle /\ okDesc
        THEN Some([user_id |-> a.user_id,
                   title |-> strip(a.title),
                   description |-> IF HasKey(a, "description") /\ strip(a.description) # <<>>
                                   THEN Some(strip(a.description)) ELSE None])
        ELSE None

ListTasksInput(a) ==
    LET okUser == HasKey(a, "user_id") /\ IsUUID(a.user_id)
        okSearch == HasKey(a, "search") => StrLen(a.search) <= SearchMaxLen
        limit == IF HasKey(a, "limit") THEN a.limit ELSE LimitDefault
        offset == IF HasKey(a, "offset") THEN a.offset ELSE 0
    IN  IF okUser /\ okSearch /\ limit >= 1 /\ limit <= LimitMax /\ offset >= 0
        THEN Some([user_id |-> a.user_id,
                   completed |-> Get(a, "completed"),
                   search |-> IF HasKey(a, "search") /\ strip(a.search) # <<>>
                              THEN Some(strip(a.search)) ELSE None,
                   limit |-> limit,
                   offset |-> offset])
        ELSE None

UpdateTaskInput(a) ==
    LET okUser == HasKey(a, "user_id") /\ IsUUID(a.user_id)
        okTitle == HasKey(a, "title") =>
                      /\ StrLen(a.title) >= 1
                      /\ StrLen(a.title) <= TitleMaxLen
                      /\ strip(a.title) # <<>>
        okDesc == HasKey(a, "description") => StrLen(a.description) <= DescriptionMaxLen
    IN  IF okUser /\ HasKey(a, "task_id") /\ okTitle /\ okDesc
        THEN Some([user_id |-> a.user_id,
                   task_id |-> a.task_id,
                   title |-> IF HasKey(a, "title") THEN Some(strip(a.title)) ELSE None,
                   description |-> Get(a, "description")])
        ELSE None

CompleteTaskInput(a) ==
    IF HasKey(a, "user_id") /\ IsUUID(a.user_id) /\ HasKey(a, "task_id")
    THEN Some([user_id |-> a.user_id,
               task_id |-> a.task_id,
               completed |-> IF HasKey(a, "completed") THEN a.completed ELSE TRUE])
    ELSE None

DeleteTaskInput(a) ==
    IF HasKey(a, "user_id") /\ IsUUID(a.user_id) /\ HasKey(a, "task_id")
    THEN Some([user_id |-> a.user_id, task_id |-> a.task_id])
    ELSE None

----------------------------------------------------------------------------
\* app/mcp/tools.py: the handlers. db is [todos, next_id, now]; up is FALSE when
\* the session raises (the handler's except branch). Each returns [db, out] with
\* out the model_dump() of the output model.

Msg(text, arg) == <<text, arg>>
Err(code, arg) == Some(<<code, arg>>)

_todo_to_task_result(todo) ==
    [id |-> todo.id, title |-> todo.title, description |-> todo.description,
     completed |-> todo.completed, created_at |-> todo.created_at,
     updated_at |-> todo.updated_at]

_get_user_task_any_owner(rows, user_id, task_id) ==
    IF task_id \in DOMAIN rows THEN Some(rows[task_id]) ELSE None

\* select(Todo).where(Todo.id == task_id, Todo.user_id == user_id).first()
_get_user_task(rows, user_id, task_id) ==
    IF task_id \in DOMAIN rows /\ rows[task_id].user_id = user_id
    THEN Some(rows[task_id]) ELSE None

PutRow(rows, row) == [i \in (DOMAIN rows) \cup {row.id} |-> IF i = row.id THEN row ELSE rows[i]]
DelRow(rows, id) == [i \in (DOMAIN rows) \ {id} |-> rows[i]]

NewTodoDone(db, inp) ==
    [id |-> db.next_id, user_id |-> inp.user_id, title |-> inp.title,
     description |-> inp.description, completed |-> TRUE,
     created_at |-> db.now, updated_at |-> db.now]

NewTodo(db, inp) ==
    [id |-> db.next_id, user_id |-> inp.user_id, title |-> inp.title,
     description |-> inp.description, completed |-> FALSE,
     created_at |-> db.now, updated_at |-> db.now]

add_task(db, inp, up) ==
    LET Added(todo) ==
            [db |-> [db EXCEPT !.todos = PutRow(@, todo), !.next_id = @ + 1],
             out |-> [success |-> TRUE, task |-> Some(_todo_to_task_result(todo)),
                      message |-> Msg("Task '%s' created successfully", todo.title),
                      error |-> None]]
    IN  IF ~up
        THEN [db |-> db,
              out |-> [success |-> FALSE, task |-> None,
                       message |-> Msg("Failed to create task", <<>>),
                       error |-> Err("DATABASE_ERROR", <<>>)]]
        ELSE Added(NewTodo(db, inp))

\* ORDER BY created_at DESC over the ids in S
RECURSIVE NewestFirst(_, _)
NewestFirst(rows, S) ==
    IF S = {} THEN <<>>
    ELSE LET top == CHOOSE i \in S : \A j \in S :
                        \/ rows[i].created_at > rows[j].created_at
                        \/ (rows[i].created_at = rows[j].created_at /\ i >= j)
         IN  <<top>> \o NewestFirst(rows, S \ {top})

Min(a, b) == IF a <= b THEN a ELSE b

ListMatches(rows, inp) ==
    {i \in DOMAIN rows :
        /\ rows[i].user_id = inp.user_id
        /\ (inp.completed # None => rows[i].completed = TheVal(inp.completed))
        /\ (inp.search # None => ilike(rows[i].title, TheVal(inp.search)))}

ListPage(rows, inp, matching) ==
    SubSeq(NewestFirst(rows, matching), inp.offset + 1,
           Min(inp.offset + inp.limit, Cardinality(matching)))

list_tasks(db, inp, up) ==
    LET status_desc == IF inp.completed = Some(TRUE) THEN "completed"
                       ELSE IF inp.completed = Some(FALSE) THEN "incomplete"
                       ELSE "total"
        Listed(total, page) ==
            [db |-> db,
             out |-> [success |-> TRUE,
                      tasks |-> [k \in 1..Len(page) |-> _todo_to_task_result(db.todos[page[k]])],
                      total |-> total,
                      message |-> IF inp.search # None
                                  THEN Msg("Found %d %s tasks matching '%s'",
                                           <<total, status_desc, TheVal(inp.search)>>)
                                  ELSE Msg("Found %d %s tasks", <<total, status_desc>>),
                      error |-> None]]
        Query(matching) == Listed(Cardinality(matching), ListPage(db.todos, inp, matching))
    IN  IF ~up
        THEN [db |-> db,
              out |-> [success |-> FALSE, tasks |-> <<>>, total |-> 0,
                       message |-> Msg("Failed to list tasks", <<>>),
                       error |-> Err("DATABASE_ERROR", <<>>)]]
        ELSE Query(ListMatches(db.todos, inp))

UpdatedTodoReopened(todo, inp, now) ==
    [todo EXCEPT
        !.title = IF inp.title # None THEN TheVal(inp.title) ELSE @,
        !.description = IF inp.description # None THEN inp.description ELSE None,
        !.completed = FALSE,
        !.updated_at = now]

\* the assignments of update_task to the row it found
UpdatedTodo(todo, inp, now) ==
    [todo EXCEPT
        !.title = IF inp.title # None THEN TheVal(inp.title) ELSE @,
        !.description = IF inp.description # None
                        THEN (IF TheVal(inp.description) # <<>> THEN inp.description ELSE None)
                        ELSE @,
        !.updated_at = now]

update_task(db, inp, up) ==
    LET Updated(todo) ==
            [db |-> [db EXCEPT !.todos = PutRow(@, todo)],
             out |-> [success |-> TRUE, task |-> Some(_todo_to_task_result(todo)),
                      message |-> Msg("Task %d updated successfully", <<todo.id>>),
                      error |-> None]]
        With(found) ==
            IF found = None
            THEN [db |-> db,
                  out |-> [success |-> FALSE, task |-> None,
                           message |-> Msg("Task not found", <<>>),
                           error |-> Err("TASK_NOT_FOUND", <<inp.task_id>>)]]
            ELSE IF inp.title = None /\ inp.description = None
            THEN [db |-> db,
                  out |-> [success |-> FALSE, task |-> Some(_todo_to_task_result(TheVal(found))),
                           message |-> Msg("No updates provided", <<>>),
                           error |-> Err("VALIDATION_ERROR", <<>>)]]
            ELSE Updated(UpdatedTodo(TheVal(found), inp, db.now))
    IN  IF ~up
        THEN [db |-> db,
              out |-> [success |-> FALSE, task |-> None,
                       message |-> Msg("Failed to update task", <<>>),
                       error |-> Err("DATABASE_ERROR", <<>>)]]
        ELSE With(_get_user_task(db.todos, inp.user_id, inp.task_id))

complete_task(db, inp, up) ==
    LET Completed(todo) ==
            [db |-> [db EXCEPT !.todos = PutRow(@, todo)],
             out |-> [success |-> TRUE, task |-> Some(_todo_to_task_result(todo)),
                      message |-> Msg(IF inp.completed THEN "Task '%s' completed"
                                      ELSE "Task '%s' marked as incomplete", todo.title),
                      error |-> None]]
        With(found) ==
            IF found = None
            THEN [db |-> db,
                  out |-> [success |-> FALSE, task |-> None,
                           message |-> Msg("Task not found", <<>>),
                           error |-> Err("TASK_NOT_FOUND", <<inp.task_id>>)]]
            ELSE Completed([TheVal(found) EXCEPT !.completed = inp.completed,
                                                 !.updated_at = db.now])
    IN  IF ~up
        THEN [db |-> db,
              out |-> [success |-> FALSE, task |-> None,
                       message |-> Msg("Failed to update task status", <<>>),
                       error |-> Err("DATABASE_ERROR", <<>>)]]
        ELSE With(_get_user_task(db.todos, inp.user_id, inp.task_id))

delete_task_lenient(db, inp, up) ==
    LET Deleted(rows, gone) ==
            [db |-> [db EXCEPT !.todos = rows],
             out |-> [success |-> TRUE, deleted_task |-> gone,
                      message |-> Msg("Task has been deleted", <<>>),
                      error |-> None]]
        With(found) ==
            IF found = None
            THEN Deleted(db.todos, None)
            ELSE Deleted(DelRow(db.todos, TheVal(found).id),
                         Some([id |-> TheVal(found).id, title |-> TheVal(found).title]))
    IN  IF ~up
        THEN [db |-> db,
              out |-> [success |-> FALSE, deleted_task |-> None,
                       message |-> Msg("Failed to delete task", <<>>),
                       error |-> Err("DATABASE_ERROR", <<>>)]]
        ELSE With(_get_user_task(db.todos, inp.user_id, inp.task_id))

delete_task(db, inp, up) ==
    LET Deleted(todo) ==
            [db |-> [db EXCEPT !.todos = DelRow(@, todo.id)],
             out |-> [success |-> TRUE,
                      deleted_task |-> Some([id |-> todo.id, title |-> todo.title]),
                      message |-> Msg("Task '%s' has been deleted", todo.title),
                      error |-> None]]
        With(found) ==
            IF found = None
            THEN [db |-> db,
                  out |-> [success |-> FALSE, deleted_task |-> None,
                           message |-> Msg("Task not found", <<>>),
                           error |-> Err("TASK_NOT_FOUND", <<inp.task_id>>)]]
            ELSE Deleted(TheVal(found))
    IN  IF ~up
        THEN [db |-> db,
              out |-> [success |-> FALSE, deleted_task |-> None,
                       message |-> Msg("Failed to delete task", <<>>),
                       error |-> Err("DATABASE_ERROR", <<>>)]]
        ELSE With(_get_user_task(db.todos, inp.user_id, inp.task_id))

TOOL_HANDLERS == {"add_task", "list_tasks", "update_task", "complete_task", "delete_task"}

INPUT_SCHEMAS(tool_name, arguments) ==
    CASE tool_name = "add_task" -> AddTaskInput(arguments)
      [] tool_name = "list_tasks" -> ListTasksInput(arguments)
      [] tool_name = "update_task" -> UpdateTaskInput(arguments)
      [] tool_name = "complete_task" -> CompleteTaskInput(arguments)
      [] tool_name = "delete_task" -> DeleteTaskInput(arguments)

Handler(tool_name, db, inp, up) ==
    CASE tool_name = "add_task" -> add_task(db, inp, up)
      [] tool_name = "list_tasks" -> list_tasks(db, inp, up)
      [] tool_name = "update_task" -> update_task(db, inp, up)
      [] tool_name = "complete_task" -> complete_task(db, inp, up)
      [] tool_name = "delete_task" -> delete_task(db, inp, up)

\* invoke_tool: raised is "ValueError", "ValidationError" or "" (returned normally)
invoke_tool(db, tool_name, arguments, up) ==
    LET Returned(r) == [raised |-> "", db |-> r.db, out |-> r.out]
        With(validated_input) ==
            IF validated_input = None
            THEN [raised |-> "ValidationError", db |-> db, out |-> EmptyDict]
            ELSE Returned(Handler(tool_name, db, TheVal(validated_input), up))
    IN  IF tool_name \notin TOOL_HANDLERS
        THEN [raised |-> "ValueError", db |-> db, out |-> EmptyDict]
        ELSE With(INPUT_SCHEMAS(tool_name, arguments))

----------------------------------------------------------------------------
\* app/mcp/server.py: MCPToolServer.call_tool returns [db, res], res the MCPToolResult

MCPToolResult(tool_name, success, result, error) ==
    [tool_name |-> tool_name, success |-> success, result |-> result, error |-> error]

call_tool(db, name, arguments, up) ==
    LET With(r) ==
            IF r.raised = "ValidationError"
            THEN [db |-> db,
                  res |-> MCPToolResult(name, FALSE, EmptyDict, Err("VALIDATION_ERROR", <<>>))]
            ELSE IF r.raised # ""
            THEN [db |-> db,
                  res |-> MCPToolResult(name, FALSE, EmptyDict, Err("INTERNAL_ERROR", <<>>))]
            ELSE [db |-> r.db,
                  res |-> MCPToolResult(name, r.out.success, r.out, r.out.error)]
    IN  IF name \notin TOOL_HANDLERS
        THEN [db |-> db,
              res |-> MCPToolResult(name, FALSE, EmptyDict, Err("UNKNOWN_TOOL", <<name>>))]
        ELSE With(invoke_tool(db, name, arguments, up))

----------------------------------------------------------------------------
\* Python values whose type the code tests: [t, v] with t in none, list, dict, other

PyNone == [t |-> "none", v |-> <<>>]
PyList(xs) == [t |-> "list", v |-> xs]
PyDict(d) == [t |-> "dict", v |-> d]
PyOther == [t |-> "other", v |-> <<>>]

\* bool(x) of a Python value
Truthy(x) == x.t = "other" \/ (x.t \in {"list", "dict"} /\ x.v # <<>>)

\* str values that are JSON or plain text: [kind, val]
Text(x) == [kind |-> "text", val |-> x]
JsonBad == [kind |-> "bad", val |-> EmptyDict]
JsonEmpty == [kind |-> "empty", val |-> EmptyDict]
JsonArray == [kind |-> "array", val |-> <<>>]

\* json.dumps(d) of a dict
json_dumps(d) == [kind |-> "object", val |-> d]

\* json.loads(s): None when it raises JSONDecodeError, else the Python value
json_loads(s) ==
    CASE s.kind = "object" -> Some(PyDict(s.val))
      [] s.kind = "array" -> Some(PyList(s.val))
      [] OTHER -> None

\* str(x) of a Python value that is no dict
str_of(x) == IF x.t = "list" THEN JsonArray ELSE Text("other")

----------------------------------------------------------------------------
\* app/services/conversation.py

get_conversation_any_user(convs, conversation_id, user_id) ==
    IF conversation_id \in DOMAIN convs THEN Some(convs[conversation_id]) ELSE None

\* select(Conversation).where(id == conversation_id, user_id == user_id).first()
get_conversation(convs, conversation_id, user_id) ==
    IF conversation_id \in DOMAIN convs /\ convs[conversation_id].user_id = user_id
    THEN Some(convs[conversation_id]) ELSE None

\* returns the new conversations table; the new row has the next free id
create_conversation(convs, user_id, now) ==
    PutRow(convs, [id |-> Cardinality(DOMAIN convs) + 1, user_id |-> user_id,
                   title |-> None, created_at |-> now, updated_at |-> now])

RECURSIVE SelectSeq2(_, _)
SelectSeq2(rows, conversation_id) ==
    IF rows = <<>> THEN <<>>
    ELSE IF Head(rows).conversation_id = conversation_id
         THEN <<Head(rows)>> \o SelectSeq2(Tail(rows), conversation_id)
         ELSE SelectSeq2(Tail(rows), conversation_id)

\* order_by(asc(created_at)).limit(limit); rows are kept in created_at order.
\* Returns [raised, rows].
get_conversation_history(msgs, convs, conversation_id, user_id, limit) ==
    LET Limited(rows) == SubSeq(rows, 1, Min(limit, Len(rows)))
    IN  IF get_conversation(convs, conversation_id, user_id) = None
        THEN [raised |-> TRUE, rows |-> <<>>]
        ELSE [raised |-> FALSE, rows |-> Limited(SelectSeq2(msgs, conversation_id))]

\* returns [raised, messages, conversations]
save_message_latest_stamp(msgs, convs, conversation_id, user_id, role, content, tool_calls, now) ==
    IF get_conversation(convs, conversation_id, user_id) = None
    THEN [raised |-> TRUE, messages |-> msgs, conversations |-> convs]
    ELSE [raised |-> FALSE,
          messages |-> Append(msgs, [id |-> Len(msgs) + 1,
                                     conversation_id |-> conversation_id,
                                     user_id |-> user_id, role |-> role,
                                     content |-> content, tool_calls |-> tool_calls,
                                     tool_call_id |-> None, name |-> None,
                                     created_at |-> now]),
          conversations |-> [convs EXCEPT ![conversation_id].updated_at =
                                              IF @ > now THEN @ ELSE now]]

save_message(msgs, convs, conversation_id, user_id, role, content, tool_calls, now) ==
    IF get_conversation(convs, conversation_id, user_id) = None
    THEN [raised |-> TRUE, messages |-> msgs, conversations |-> convs]
    ELSE [raised |-> FALSE,
          messages |-> Append(msgs, [id |-> Len(msgs) + 1,
                                     conversation_id |-> conversation_id,
                                     user_id |-> user_id, role |-> role,
                                     content |-> content, tool_calls |-> tool_calls,
                                     tool_call_id |-> None, name |-> None,
                                     created_at |-> now]),
          conversations |-> [convs EXCEPT ![conversation_id].updated_at = now]]

----------------------------------------------------------------------------
\* app/agent/runner.py

\* the wire shape of one invocation request
WireCall(id, name, arguments) ==
    [id |-> id, type |-> "function", function |-> [name |-> name, arguments |-> arguments]]

NormalizeEntryStr(tc) ==
    IF tc.t # "dict" THEN None
    ELSE IF HasKey(tc.v, "id") /\ HasKey(tc.v, "type") /\ HasKey(tc.v, "function")
    THEN Some(tc.v)
    ELSE IF HasKey(tc.v, "tool_call_id") /\ HasKey(tc.v, "tool_name")
    THEN Some(WireCall(tc.v.tool_call_id, tc.v.tool_name,
                       IF ~HasKey(tc.v, "arguments") THEN json_dumps(EmptyDict)
                       ELSE Text("other")))
    ELSE None

\* one entry of the storage shape to the wire shape; None when the entry is dropped
NormalizeEntry(tc) ==
    IF tc.t # "dict" THEN None
    ELSE IF HasKey(tc.v, "id") /\ HasKey(tc.v, "type") /\ HasKey(tc.v, "function")
    THEN Some(tc.v)
    ELSE IF HasKey(tc.v, "tool_call_id") /\ HasKey(tc.v, "tool_name")
    THEN Some(WireCall(tc.v.tool_call_id, tc.v.tool_name,
                       IF ~HasKey(tc.v, "arguments") THEN json_dumps(EmptyDict)
                       ELSE IF tc.v.arguments.t = "dict" THEN json_dumps(tc.v.arguments.v)
                       ELSE str_of(tc.v.arguments)))
    ELSE None

RECURSIVE NormalizeList(_)
NormalizeList(xs) ==
    IF xs = <<>> THEN <<>>
    ELSE (IF NormalizeEntry(Head(xs)) = None THEN <<>> ELSE <<TheVal(NormalizeEntry(Head(xs)))>>)
         \o NormalizeList(Tail(xs))

_normalize_tool_calls_strict(tool_calls) ==
    LET xs == IF tool_calls.t = "dict" THEN <<tool_calls>>
              ELSE IF tool_calls.t = "list" THEN tool_calls.v ELSE <<>>
    IN  IF \E k \in 1..Len(xs) : NormalizeEntry(xs[k]) = None THEN <<>>
        ELSE NormalizeList(xs)

_normalize_tool_calls(tool_calls) ==
    IF ~Truthy(tool_calls) THEN <<>>
    ELSE IF tool_calls.t = "dict" THEN NormalizeList(<<tool_calls>>)
    ELSE IF tool_calls.t # "list" THEN <<>>
    ELSE NormalizeList(tool_calls.v)

\* chat.py: AgentMessage(role=msg.role, content=msg.content, tool_calls=msg.tool_calls)
AgentMessage(row) ==
    [role |-> row.role, content |-> row.content, tool_calls |-> row.tool_calls,
     tool_call_id |-> None, name |-> None]

\* the dict _build_messages makes of one history message
HistoryDict(msg) ==
    LET base == [role |-> msg.role, content |-> msg.content]
        WithCalls(d, normalized) ==
            IF Truthy(msg.tool_calls) /\ normalized # <<>>
            THEN SetKey(d, "tool_calls", normalized) ELSE d
        WithId(d) == IF msg.tool_call_id # None
                     THEN SetKey(d, "tool_call_id", TheVal(msg.tool_call_id)) ELSE d
        WithName(d) == IF msg.name # None THEN SetKey(d, "name", TheVal(msg.name)) ELSE d
    IN  WithName(WithId(WithCalls(base, _normalize_tool_calls(msg.tool_calls))))

_build_messages_resaved(user_message, conversation_history) ==
    <<[role |-> "system", content |-> Text("system_prompt")]>>
    \o [i \in 1..Len(conversation_history) |-> HistoryDict(conversation_history[i])]
    \o <<[role |-> "user", content |-> Text(user_message)],
         [role |-> "user", content |-> Text(user_message)]>>

_build_messages(user_message, conversation_history) ==
    <<[role |-> "system", content |-> Text("system_prompt")]>>
    \o [i \in 1..Len(conversation_history) |-> HistoryDict(conversation_history[i])]
    \o <<[role |-> "user", content |-> Text(user_message)]>>

\* arguments["user_id"] = str(user_id)
InjectUserIdIfAbsent(arguments, user_id) ==
    IF HasKey(arguments, "user_id") THEN arguments ELSE SetKey(arguments, "user_id", user_id)

InjectUserId(arguments, user_id) == SetKey(arguments, "user_id", user_id)

\* _execute_tool_call: [raised, db, entry, dispatched]; raised when json.loads or the
\* item assignment raises; dispatched is the call_tool made, if any
_execute_tool_call(db, tool_call, user_id, up) ==
    LET Done(arguments, r) ==
            [raised |-> FALSE, db |-> r.db,
             entry |-> [tool_call_id |-> tool_call.id,
                        tool_name |-> tool_call.function.name,
                        arguments |-> PyDict(arguments),
                        result |-> r.res.result,
                        success |-> r.res.success],
             dispatched |-> Some([tool_call_id |-> tool_call.id,
                                  name |-> tool_call.function.name,
                                  arguments |-> arguments, res |-> r.res])]
        Call(arguments) ==
            Done(arguments, call_tool(db, tool_call.function.name, arguments, up))
        With(parsed) ==
            IF parsed = None \/ TheVal(parsed).t # "dict"
            THEN [raised |-> TRUE, db |-> db, entry |-> EmptyDict, dispatched |-> None]
            ELSE Call(InjectUserId(TheVal(parsed).v, user_id))
    IN  With(json_loads(tool_call.function.arguments))

ToolMessageWrongId(tool_call, content) ==
    [role |-> "tool", tool_call_id |-> 0, name |-> tool_call.function.name,
     content |-> content]

ToolMessage(tool_call, content) ==
    [role |-> "tool", tool_call_id |-> tool_call.id, name |-> tool_call.function.name,
     content |-> content]

ErrorResult(tool_call) ==
    [success |-> FALSE, error |-> "TOOL_EXECUTION_ERROR", message |-> "str(e)",
     tool |-> tool_call.function.name]

\* the body of the for loop of _process_response for one tool call:
\* [abort, db, entry, tool_message, dispatched]; abort when the except branch itself raises
ToolStep(db, tool_call, user_id, up) ==
    LET Failed(arguments) ==
            IF arguments = None
            THEN [abort |-> TRUE, db |-> db, entry |-> EmptyDict,
                  tool_message |-> EmptyDict, dispatched |-> None]
            ELSE [abort |-> FALSE, db |-> db,
                  entry |-> [tool_call_id |-> tool_call.id,
                             tool_name |-> tool_call.function.name,
                             arguments |-> TheVal(arguments),
                             result |-> ErrorResult(tool_call),
                             success |-> FALSE],
                  tool_message |-> ToolMessage(tool_call, json_dumps(ErrorResult(tool_call))),
                  dispatched |-> None]
        With(ex) ==
            IF ~ex.raised
            THEN [abort |-> FALSE, db |-> ex.db, entry |-> ex.entry,
                  tool_message |-> ToolMessage(tool_call, json_dumps(ex.entry.result)),
                  dispatched |-> ex.dispatched]
            ELSE Failed(IF tool_call.function.arguments.kind # "empty"
                        THEN json_loads(tool_call.function.arguments)
                        ELSE Some(PyDict(EmptyDict)))
    IN  With(_execute_tool_call(db, tool_call, user_id, up))

\* run's answers that come from no completion response
NotConfigured ==
    [message |-> "AI chatbot is not configured", tool_calls |-> <<>>,
     finish_reason |-> "error", intermediate_messages |-> <<>>]

RunFailedAsStop ==
    [message |-> "I encountered an error", tool_calls |-> <<>>,
     finish_reason |-> "stop", intermediate_messages |-> <<>>]

\* run's except branch
RunFailed ==
    [message |-> "I encountered an error", tool_calls |-> <<>>,
     finish_reason |-> "error", intermediate_messages |-> <<>>]

\* _process_response's except branch around the resubmission
ResubmitFailed(q) ==
    [message |-> "I encountered an error calling the AI service",
     tool_calls |-> q.tool_calls_log, finish_reason |-> "error",
     intermediate_messages |-> q.intermediate_messages]

ReturnedWithoutLog(q) ==
    [q EXCEPT !.pc = "persist",
              !.agent_response =
                  [message |-> IF q.message.content = None THEN ""
                               ELSE TheVal(q.message.content),
                   tool_calls |-> <<>>,
                   finish_reason |-> q.response.finish_reason,
                   intermediate_messages |-> q.intermediate_messages]]

\* the return after the while loop
Returned(q) ==
    [q EXCEPT !.pc = "persist",
              !.agent_response =
                  [message |-> IF q.message.content = None THEN ""
                               ELSE TheVal(q.message.content),
                   tool_calls |-> q.tool_calls_log,
                   finish_reason |-> q.response.finish_reason,
                   intermediate_messages |-> q.intermediate_messages]]

AssistantMessage(message) ==
    [role |-> "assistant",
     content |-> Text(IF message.content = None THEN "" ELSE TheVal(message.content)),
     tool_calls |-> message.tool_calls]

ProcessNoCeiling(q) ==
    IF q.response.message.tool_calls # <<>>
    THEN [q EXCEPT !.pc = "tools", !.k = 1, !.iteration = @ + 1,
                   !.message = q.response.message,
                   !.msgs = Append(@, AssistantMessage(q.response.message)),
                   !.intermediate_messages = Append(@, AssistantMessage(q.response.message))]
    ELSE Returned([q EXCEPT !.iteration = @ + 1, !.message = q.response.message])

\* one pass of the while loop from its test to the first tool call, or the return:
\* q is the run's locals with q.response the response just received
Process(q) ==
    LET Tools(m) ==
            [q EXCEPT !.pc = "tools", !.k = 1, !.iteration = @ + 1, !.message = m,
                      !.msgs = Append(@, AssistantMessage(m)),
                      !.intermediate_messages = Append(@, AssistantMessage(m))]
        Final(m) == Returned([q EXCEPT !.iteration = @ + 1, !.message = m])
    IN  IF q.iteration < max_iterations
        THEN IF q.response.message.tool_calls # <<>>
             THEN Tools(q.response.message)
             ELSE Final(q.response.message)
        ELSE Returned(q)

----------------------------------------------------------------------------
\* The storage the handlers see, and the rest of the state

DB == [todos |-> todos, next_id |-> next_todo_id, now |-> clock]

NoRows == [i \in {} |-> 0]

Slots == {1}

IdleReq ==
    [pc |-> "idle", user |-> "", conversation_id |-> None, text |-> "",
     conversation |-> 0, conversation_messages |-> <<>>,
     msgs |-> <<>>, base |-> 0, response |-> EmptyDict, message |-> EmptyDict,
     iteration |-> 0, k |-> 0, tool_calls_log |-> <<>>, intermediate_messages |-> <<>>,
     agent_response |-> EmptyDict]

NoTrace ==
    [http |-> EmptyDict, ncompl |-> 0, submitted |-> <<>>, dispatched |-> <<>>,
     completion_failed |-> FALSE, aborted |-> FALSE, warned |-> FALSE]

NoCall ==
    [tool |-> "", arguments |-> EmptyDict, up |-> TRUE,
     res |-> MCPToolResult("", TRUE, EmptyDict, None), before |-> NoRows]

Init ==
    /\ todos = NoRows
    /\ next_todo_id = 1
    /\ clock = 1
    /\ conversations = NoRows
    /\ messages = <<>>
    /\ req = [r \in Slots |-> IdleReq]
    /\ nreq = 0
    /\ ncalls = 0
    /\ last = NoCall
    /\ api_key \in BOOLEAN
    /\ trace = [r \in Slots |-> NoTrace]

----------------------------------------------------------------------------
\* Direct use of the registry: MCPToolServer.call_tool(name, arguments), the
\* arguments drawn from small sets that hold valid and invalid values.

T_a == Str("a", 3)
T_Ba == Str("B", 1) \o Str("a", 1)
T_blank == Str(" ", 1)
T_padded == Str(" ", 1) \o Str("a", 3) \o Str(" ", 1)
T_long == Str("a", TitleMaxLen + 1)

TitleArgs == {T_a, T_Ba, T_blank, T_padded, T_long}
TaskIdArgs == 1..(MaxTasks + 1)

One(k, vals) == {[x \in {k} |-> v] : v \in vals}
Opt(k, vals) == {EmptyDict} \cup One(k, vals)
Merge(d1, d2) == [x \in (DOMAIN d1) \cup (DOMAIN d2) |-> IF x \in DOMAIN d1 THEN d1[x] ELSE d2[x]]

AddTaskArgs ==
    {Merge(u, Merge(t, d)) :
        u \in One("user_id", Users), t \in Opt("title", TitleArgs),
        d \in Opt("description", {T_a})}

ListTasksArgs ==
    {Merge(u, Merge(c, Merge(s, Merge(l, o)))) :
        u \in One("user_id", Users), c \in Opt("completed", {TRUE}),
        s \in Opt("search", {Str("A", 1), Str("_", 1)}),
        l \in Opt("limit", {1}), o \in Opt("offset", {1})}
    \cup {Merge([user_id |-> "u1"], x) :
            x \in One("limit", {0, LimitMax + 1}) \cup One("offset", {-1})}

UpdateTaskArgs ==
    {Merge(u, Merge(i, Merge(t, d))) :
        u \in One("user_id", Users), i \in One("task_id", TaskIdArgs),
        t \in Opt("title", {T_Ba, T_blank}), d \in Opt("description", {<<>>, T_a})}

CompleteTaskArgs ==
    {Merge(u, Merge(i, c)) :
        u \in One("user_id", Users), i \in One("task_id", TaskIdArgs),
        c \in Opt("completed", {FALSE})}

DeleteTaskArgs ==
    {Merge(u, i) : u \in One("user_id", Users), i \in Opt("task_id", TaskIdArgs)}

\* one well-formed argument set per tool, used when the storage is down
DownArgs ==
    [add_task |-> [user_id |-> "u1", title |-> T_a],
     list_tasks |-> [user_id |-> "u1"],
     update_task |-> [user_id |-> "u1", task_id |-> 1, title |-> T_Ba],
     complete_task |-> [user_id |-> "u1", task_id |-> 1],
     delete_task |-> [user_id |-> "u1", task_id |-> 1]]

Invoke(name, arguments, up) ==
    \E r \in {call_tool(DB, name, arguments, up)} :
        /\ todos' = r.db.todos
        /\ next_todo_id' = r.db.next_id
        /\ clock' = clock + 1
        /\ last' = [tool |-> name, arguments |-> arguments, up |-> up, res |-> r.res,
                    before |-> todos]
        /\ UNCHANGED <<conversations, messages, req, nreq, ncalls, trace, api_key>>

CallAddTask ==
    \E a \in AddTaskArgs :
        /\ clock < MaxOps
        /\ next_todo_id <= MaxTasks
        /\ Invoke("add_task", a, TRUE)

CallListTasks ==
    \E a \in ListTasksArgs :
        /\ clock < MaxOps
        /\ Invoke("list_tasks", a, TRUE)

CallUpdateTask ==
    \E a \in UpdateTaskArgs :
        /\ clock < MaxOps
        /\ Invoke("update_task", a, TRUE)

CallCompleteTask ==
    \E a \in CompleteTaskArgs :
        /\ clock < MaxOps
        /\ Invoke("complete_task", a, TRUE)

CallDeleteTask ==
    \E a \in DeleteTaskArgs :
        /\ clock < MaxOps
        /\ Invoke("delete_task", a, TRUE)

CallUnknownTool ==
    \E a \in DeleteTaskArgs :
        /\ clock < MaxOps
        /\ Invoke("remove_task", a, TRUE)

\* argument sets the handlers cannot act on, used when the storage is down
InvalidDownArgs ==
    {[tool |-> "add_task", arguments |-> [user_id |-> "u1", title |-> T_blank]],
     [tool |-> "list_tasks", arguments |-> [user_id |-> "u1", offset |-> -1]],
     [tool |-> "update_task", arguments |-> [user_id |-> "u1", task_id |-> 1]],
     [tool |-> "delete_task", arguments |-> [user_id |-> "u1"]]}

CallStorageDown ==
    \E c \in {[tool |-> name, arguments |-> DownArgs[name]] : name \in TOOL_HANDLERS}
              \cup InvalidDownArgs :
        /\ clock < MaxOps
        /\ Invoke(c.tool, c.arguments, FALSE)

NextTools ==
    \/ CallAddTask
    \/ CallListTasks
    \/ CallUpdateTask
    \/ CallCompleteTask
    \/ CallDeleteTask
    \/ CallUnknownTool
    \/ CallStorageDown

\* the registry does not read the key
InitTools == Init /\ api_key

SpecTools == InitTools /\ [][NextTools]_vars

----------------------------------------------------------------------------
\* app/routers/todos.py: the REST endpoints POST /{user_id}/tasks and
\* PUT /{user_id}/tasks/{task_id}. They work on the same todos table as the tool handlers.

\* app/schemas/todo.py TodoCreate: None when the body is rejected, else the body
TodoCreate(a) ==
    LET okTitle == /\ HasKey(a, "title")
                   /\ StrLen(a.title) >= 1
                   /\ StrLen(a.title) <= CreateTitleMaxLen
        okDesc == HasKey(a, "description") => StrLen(a.description) <= CreateDescriptionMaxLen
    IN  IF okTitle /\ okDesc THEN Some(a) ELSE None

\* create_todo returns [db, status, body]; body is the TodoResponse or None
create_todo(db, user_id, authenticated_user_id, todo_data) ==
    LET Created(todo) ==
            [db |-> [db EXCEPT !.todos = PutRow(@, todo), !.next_id = @ + 1],
             status |-> 201, body |-> Some(_todo_to_task_result(todo))]
    IN  IF TodoCreate(todo_data) = None THEN [db |-> db, status |-> 422, body |-> None]
        ELSE IF user_id # authenticated_user_id
        THEN [db |-> db, status |-> 403, body |-> None]
        ELSE Created([id |-> db.next_id, user_id |-> authenticated_user_id,
                      title |-> todo_data.title,
                      description |-> Get(todo_data, "description"),
                      completed |-> FALSE,
                      created_at |-> db.now, updated_at |-> db.now])

CallCreateTodo ==
    \E u \in Users, auth \in Users,
       a \in {Merge(t, d) : t \in Opt("title", {T_a, T_blank, <<>>}),
                            d \in Opt("description", {T_a})} :
        /\ clock < MaxOps
        /\ next_todo_id <= MaxTasks
        /\ \E r \in {create_todo(DB, u, auth, a)} :
              /\ todos' = r.db.todos
              /\ next_todo_id' = r.db.next_id
              /\ last' = [tool |-> "create_todo",
                          arguments |-> Merge([user_id |-> u], a),
                          up |-> TRUE,
                          res |-> [status |-> r.status, body |-> r.body],
                          before |-> todos]
        /\ clock' = clock + 1
        /\ UNCHANGED <<conversations, messages, req, nreq, ncalls, trace, api_key>>

\* app/schemas/todo.py TodoUpdate: None when the body is rejected, else the fields set
TodoUpdate(a) ==
    LET okTitle == HasKey(a, "title") => StrLen(a.title) <= UpdateTitleMaxLen
        okDesc == HasKey(a, "description") => StrLen(a.description) <= UpdateDescriptionMaxLen
    IN  IF okTitle /\ okDesc THEN Some(a) ELSE None

\* for field, value in update_data.items(): setattr(todo, field, value)
SetFields(todo, update_data) ==
    [todo EXCEPT
        !.title = IF HasKey(update_data, "title") THEN update_data.title ELSE @,
        !.description = IF HasKey(update_data, "description")
                        THEN Some(update_data.description) ELSE @,
        !.completed = IF HasKey(update_data, "completed") THEN update_data.completed ELSE @]

\* update_todo returns [db, status, body]; body is the TodoResponse or None
update_todo(db, user_id, authenticated_user_id, task_id, todo_data) ==
    LET Answer(code) == [db |-> db, status |-> code, body |-> None]
        Saved(todo) ==
            [db |-> [db EXCEPT !.todos = PutRow(@, todo)], status |-> 200,
             body |-> Some(_todo_to_task_result(todo))]
        With(found, update_data) ==
            IF found = None THEN Answer(404)
            ELSE IF update_data = EmptyDict THEN Answer(422)
            ELSE Saved(SetFields(TheVal(found), update_data))
    IN  IF TodoUpdate(todo_data) = None THEN Answer(422)
        ELSE IF user_id # authenticated_user_id THEN Answer(403)
        ELSE With(_get_user_task(db.todos, authenticated_user_id, task_id),
                  TheVal(TodoUpdate(todo_data)))

TodoUpdateArgs ==
    {Merge(t, c) : t \in Opt("title", {T_Ba, T_long, <<>>}), c \in Opt("completed", {TRUE})}

CallUpdateTodo ==
    \E u \in Users, auth \in Users, i \in TaskIdArgs, a \in TodoUpdateArgs :
        /\ clock < MaxOps
        /\ \E r \in {update_todo(DB, u, auth, i, a)} :
              /\ todos' = r.db.todos
              /\ last' = [tool |-> "update_todo",
                          arguments |-> Merge([user_id |-> u, task_id |-> i], a),
                          up |-> TRUE,
                          res |-> [status |-> r.status, body |-> r.body],
                          before |-> todos]
        /\ clock' = clock + 1
        /\ UNCHANGED <<next_todo_id, conversations, messages, req, nreq, ncalls, trace,
                       api_key>>

NextTodos ==
    \/ CallAddTask
    \/ CallUpdateTask
    \/ CallCompleteTask
    \/ CallDeleteTask
    \/ CallCreateTodo
    \/ CallUpdateTodo

SpecTodos == InitTools /\ [][NextTodos]_vars

----------------------------------------------------------------------------
\* The completion capability: what a call to chat.completions.create may give

OtherUser(u) == CHOOSE v \in Users : v # u

\* the invocation requests the capability may make in a run for user u
CallMenu(u) ==
    { [name |-> "add_task", arguments |-> json_dumps([title |-> T_a, user_id |-> OtherUser(u)])],
      [name |-> "add_task", arguments |-> json_dumps([title |-> T_blank])],
      [name |-> "remove_task", arguments |-> json_dumps(EmptyDict)],
      [name |-> "delete_task", arguments |-> JsonBad],
      [name |-> "list_tasks", arguments |-> JsonEmpty] }

TextResponse ==
    [message |-> [content |-> Some("ok"), tool_calls |-> <<>>], finish_reason |-> "stop"]

\* a response asking for the invocations items, with ids first, first + 1, ...
ToolResponse(items, first) ==
    [message |-> [content |-> None,
                  tool_calls |-> [i \in 1..Len(items) |->
                                     WireCall(first + i - 1, items[i].name, items[i].arguments)]],
     finish_reason |-> "tool_calls"]

\* an outcome is a response, or the call raising
CompletionOutcomes(u) ==
    {[raised |-> TRUE, response |-> TextResponse], [raised |-> FALSE, response |-> TextResponse]}
    \cup {[raised |-> FALSE, response |-> ToolResponse(items, ncalls + 1)] :
            items \in UNION {[1..n -> CallMenu(u)] : n \in 1..(MaxToolCalls - ncalls)}}

----------------------------------------------------------------------------
\* app/routers/chat.py: send_chat_message, one action per storage or completion step

ConversationIdArgs == {None} \cup {Some(c) : c \in 1..(Cardinality(DOMAIN conversations) + 1)}

NotFound404 ==
    [status |-> 404,
     detail |-> "The conversation_id does not exist or does not belong to this user"]

Forbidden403 ==
    [status |-> 403, detail |-> "user_id in path does not match authenticated user"]

InternalError500 == [status |-> 500, detail |-> "Internal server error"]

SetReq(r, q) == req' = [req EXCEPT ![r] = q]
SetTrace(r, t) == trace' = [trace EXCEPT ![r] = t]

\* lines 164-209: the authorization check, then load or create the conversation
ReceiveChat(r) ==
    \E path_user \in Users, auth \in Users, cid \in ConversationIdArgs :
        /\ req[r].pc = "idle"
        /\ nreq < MaxRequests
        /\ nreq' = nreq + 1
        /\ IF path_user # auth
           THEN /\ SetReq(r, IdleReq)
                /\ SetTrace(r, [NoTrace EXCEPT !.http = Forbidden403])
                /\ UNCHANGED <<conversations, clock>>
           ELSE IF cid # None
           THEN IF get_conversation(conversations, TheVal(cid), auth) = None
                THEN /\ SetReq(r, [IdleReq EXCEPT !.user = auth, !.conversation_id = cid])
                     /\ SetTrace(r, [NoTrace EXCEPT !.http = NotFound404])
                     /\ UNCHANGED <<conversations, clock>>
                ELSE /\ SetReq(r, [IdleReq EXCEPT !.pc = "history", !.user = auth,
                                                  !.conversation_id = cid, !.text = "hi",
                                                  !.conversation = TheVal(cid)])
                     /\ SetTrace(r, NoTrace)
                     /\ UNCHANGED <<conversations, clock>>
           ELSE /\ conversations' = create_conversation(conversations, auth, clock)
                /\ clock' = clock + 1
                /\ SetReq(r, [IdleReq EXCEPT !.pc = "history", !.user = auth,
                                             !.conversation_id = cid, !.text = "hi",
                                             !.conversation = Cardinality(DOMAIN conversations) + 1])
                /\ SetTrace(r, NoTrace)
        /\ UNCHANGED <<todos, next_todo_id, messages, ncalls, last, api_key>>

\* lines 211-222
LoadHistory(r) ==
    /\ req[r].pc = "history"
    /\ IF req[r].conversation_id = None
       THEN /\ SetReq(r, [req[r] EXCEPT !.pc = "save_user", !.conversation_messages = <<>>])
            /\ UNCHANGED trace
       ELSE \E h \in {get_conversation_history(messages, conversations, req[r].conversation,
                                               req[r].user, HistoryLimit)} :
                IF h.raised
                THEN /\ SetReq(r, [req[r] EXCEPT !.pc = "idle"])
                     /\ SetTrace(r, [trace[r] EXCEPT !.http = InternalError500])
                ELSE /\ SetReq(r, [req[r] EXCEPT !.pc = "save_user",
                                                 !.conversation_messages = h.rows])
                     /\ UNCHANGED trace
    /\ UNCHANGED <<todos, next_todo_id, clock, conversations, messages, nreq, ncalls, last, api_key>>

\* lines 224-233
SaveUserMessage(r) ==
    /\ req[r].pc = "save_user"
    /\ \E s \in {save_message(messages, conversations, req[r].conversation, req[r].user,
                              "user", Text(req[r].text), PyNone, clock)} :
          /\ messages' = s.messages
          /\ conversations' = s.conversations
          /\ IF s.raised
             THEN /\ SetReq(r, [req[r] EXCEPT !.pc = "idle"])
                  /\ SetTrace(r, [trace[r] EXCEPT !.http = InternalError500])
             ELSE /\ SetReq(r, [req[r] EXCEPT !.pc = "run"])
                  /\ UNCHANGED trace
    /\ clock' = clock + 1
    /\ UNCHANGED <<todos, next_todo_id, nreq, ncalls, last, api_key>>

\* AgentRunner.run (lines 123-170) up to the first tool call or the return, the
\* completion call answering with one of outcomes;
\* self.client is None when the runner was made without a key
RunWith(r, outcomes) ==
    /\ \E o \in (IF api_key THEN outcomes
                 ELSE {[raised |-> FALSE, response |-> TextResponse]}) :
       \E built \in {_build_messages(req[r].text,
                        [i \in 1..Len(req[r].conversation_messages) |->
                            AgentMessage(req[r].conversation_messages[i])])} :
          IF ~api_key
          THEN /\ SetReq(r, [req[r] EXCEPT !.pc = "persist", !.agent_response = NotConfigured])
               /\ UNCHANGED <<trace, ncalls>>
          ELSE IF o.raised
          THEN /\ SetReq(r, [req[r] EXCEPT !.pc = "persist", !.msgs = built,
                                           !.base = Len(built),
                                           !.agent_response = RunFailed])
               /\ SetTrace(r, [trace[r] EXCEPT !.ncompl = 1, !.submitted = built,
                                               !.completion_failed = TRUE])
               /\ UNCHANGED ncalls
          ELSE \E q \in {Process([req[r] EXCEPT !.msgs = built, !.base = Len(built),
                                               !.response = o.response])} :
                 /\ SetReq(r, q)
                 /\ SetTrace(r, [trace[r] EXCEPT !.ncompl = 1, !.submitted = built,
                                    !.warned = (q.pc = "persist"
                                                /\ q.iteration >= max_iterations)])
                 /\ ncalls' = ncalls + Len(o.response.message.tool_calls)
    /\ UNCHANGED <<todos, next_todo_id, clock, conversations, messages, nreq, last, api_key>>

RunAgent(r) ==
    /\ req[r].pc = "run"
    /\ RunWith(r, CompletionOutcomes(req[r].user))

\* lines 363-401 of _process_response for the k-th tool call of the response; when the
\* except branch raises, the exception leaves _process_response and run's except answers.
\* The storage is up here; the handlers' storage failures are the matter of CallStorageDown.
ExecTool(r) ==
    /\ req[r].pc = "tools"
    /\ \E st \in {ToolStep(DB, req[r].message.tool_calls[req[r].k], req[r].user, TRUE)} :
          /\ todos' = st.db.todos
          /\ next_todo_id' = st.db.next_id
          /\ IF st.abort
             THEN /\ SetReq(r, [req[r] EXCEPT !.pc = "persist", !.agent_response = RunFailed])
                  /\ SetTrace(r, [trace[r] EXCEPT !.aborted = TRUE])
             ELSE /\ SetReq(r, [req[r] EXCEPT
                        !.tool_calls_log = Append(@, st.entry),
                        !.msgs = Append(@, st.tool_message),
                        !.intermediate_messages = Append(@, st.tool_message),
                        !.k = @ + 1,
                        !.pc = IF req[r].k = Len(req[r].message.tool_calls)
                               THEN "resubmit" ELSE "tools"])
                  /\ SetTrace(r, [trace[r] EXCEPT
                        !.dispatched = IF st.dispatched = None THEN @
                                       ELSE Append(@, TheVal(st.dispatched))])
    /\ clock' = clock + 1
    /\ UNCHANGED <<conversations, messages, nreq, ncalls, last, api_key>>

\* lines 403-423, then the loop again up to the next tool call or the return, the
\* completion call answering with one of outcomes
ResubmitWith(r, outcomes) ==
    /\ \E o \in outcomes :
          IF o.raised
          THEN /\ SetReq(r, [req[r] EXCEPT !.pc = "persist",
                                           !.agent_response = ResubmitFailed(req[r])])
               /\ SetTrace(r, [trace[r] EXCEPT !.ncompl = @ + 1, !.submitted = req[r].msgs,
                                               !.completion_failed = TRUE])
               /\ UNCHANGED ncalls
          ELSE \E q \in {Process([req[r] EXCEPT !.response = o.response])} :
                 /\ SetReq(r, q)
                 /\ SetTrace(r, [trace[r] EXCEPT !.ncompl = @ + 1, !.submitted = req[r].msgs,
                                    !.warned = (q.pc = "persist"
                                                /\ q.iteration >= max_iterations)])
                 /\ ncalls' = ncalls + Len(o.response.message.tool_calls)
    /\ UNCHANGED <<todos, next_todo_id, clock, conversations, messages, nreq, last, api_key>>

Resubmit(r) ==
    /\ req[r].pc = "resubmit"
    /\ ResubmitWith(r, CompletionOutcomes(req[r].user))

Ok200(q) ==
    [status |-> 200, conversation_id |-> q.conversation,
     message |-> q.agent_response.message, tool_calls |-> q.agent_response.tool_calls]

\* lines 266-312
SaveAssistant(r) ==
    /\ req[r].pc = "persist"
    /\ \E s \in {save_message(messages, conversations, req[r].conversation, req[r].user,
                              "assistant", Text(req[r].agent_response.message),
                              IF req[r].agent_response.tool_calls # <<>>
                              THEN PyList([i \in 1..Len(req[r].agent_response.tool_calls) |->
                                              PyDict(req[r].agent_response.tool_calls[i])])
                              ELSE PyNone,
                              clock)} :
          /\ messages' = s.messages
          /\ conversations' = s.conversations
          /\ SetReq(r, [req[r] EXCEPT !.pc = "idle"])
          /\ SetTrace(r, [trace[r] EXCEPT !.http = IF s.raised THEN InternalError500
                                                   ELSE Ok200(req[r])])
    /\ clock' = clock + 1
    /\ UNCHANGED <<todos, next_todo_id, nreq, ncalls, last, api_key>>

Next ==
    \E r \in Slots :
        \/ ReceiveChat(r)
        \/ LoadHistory(r)
        \/ SaveUserMessage(r)
        \/ RunAgent(r)
        \/ ExecTool(r)
        \/ Resubmit(r)
        \/ SaveAssistant(r)

Spec == Init /\ [][Next]_vars

----------------------------------------------------------------------------
\* One AgentRunner.run called directly, with no history, against a completion
\* capability that never fails and may ask for tools in every response: the runs
\* that meet the iteration ceiling.

CeilingUser == "u1"

\* the tool calls one response may ask for: every one of them succeeds
CeilingRequests ==
    { <<[name |-> "list_tasks", arguments |-> json_dumps(EmptyDict)]>>,
      <<[name |-> "list_tasks", arguments |-> json_dumps(EmptyDict)],
        [name |-> "list_tasks", arguments |-> json_dumps([completed |-> TRUE])]>> }

CeilingOutcomes ==
    {[raised |-> FALSE, response |-> TextResponse]}
    \cup {[raised |-> FALSE, response |-> ToolResponse(items, ncalls + 1)] :
            items \in CeilingRequests}

InitCeiling ==
    /\ todos = NoRows
    /\ next_todo_id = 1
    /\ clock = 1
    /\ conversations = NoRows
    /\ messages = <<>>
    /\ req = [r \in Slots |-> [IdleReq EXCEPT !.pc = "run", !.user = CeilingUser,
                                               !.text = "hi"]]
    /\ nreq = 0
    /\ ncalls = 0
    /\ last = NoCall
    /\ api_key = TRUE
    /\ trace = [r \in Slots |-> NoTrace]

CeilingRun(r) ==
    /\ req[r].pc = "run"
    /\ RunWith(r, CeilingOutcomes)

CeilingExecTool(r) ==
    /\ req[r].pc = "tools"
    /\ ExecTool(r)

CeilingResubmit(r) ==
    /\ req[r].pc = "resubmit"
    /\ ResubmitWith(r, CeilingOutcomes)

NextCeiling ==
    \E r \in Slots :
        \/ CeilingRun(r)
        \/ CeilingExecTool(r)
        \/ CeilingResubmit(r)

SpecCeiling == InitCeiling /\ [][NextCeiling]_vars

----------------------------------------------------------------------------
\* AgentRunner._normalize_tool_calls applied directly to a value, and applied
\* again to what it returned. last.arguments is the value handed to the first
\* call, last.res the list the latest call returned; last.tool is "" until the
\* first call.

CallIds == {"call_1", "call_2"}

\* entries in the storage shape, as _execute_tool_call logs them
StorageEntries ==
    {PyDict([tool_call_id |-> i, tool_name |-> n, arguments |-> PyDict(a), success |-> TRUE]) :
        i \in CallIds, n \in {"add_task", "list_tasks"},
        a \in {EmptyDict, [user_id |-> "u1", title |-> T_a]}}

\* entries already in the wire shape
WireEntries == {PyDict(WireCall(i, "list_tasks", json_dumps(EmptyDict))) : i \in CallIds}

\* entries in neither shape: a non-dict item, a dict lacking tool_call_id
MalformedEntries == {PyOther, PyDict([tool_name |-> "add_task", arguments |-> PyDict(EmptyDict)])}

EntryLists ==
    UNION {[1..n -> StorageEntries \cup WireEntries \cup MalformedEntries] :
              n \in 0..MaxEntries}

\* the state before the first call on the value tool_calls
NotNormalized(tool_calls) ==
    [tool |-> "", arguments |-> tool_calls, up |-> TRUE, res |-> <<>>, before |-> NoRows]

InitNormalize ==
    /\ todos = NoRows
    /\ next_todo_id = 1
    /\ clock = 1
    /\ conversations = NoRows
    /\ messages = <<>>
    /\ req = [r \in Slots |-> IdleReq]
    /\ nreq = 0
    /\ ncalls = 0
    /\ api_key = TRUE
    /\ trace = [r \in Slots |-> NoTrace]
    /\ \/ last = NotNormalized(PyNone)
       \/ \E tc \in StorageEntries \cup WireEntries \cup MalformedEntries :
             last = NotNormalized(tc)
       \/ \E xs \in EntryLists : last = NotNormalized(PyList(xs))

\* normalized = self._normalize_tool_calls(tool_calls)
Normalize ==
    /\ last.tool = ""
    /\ last' = [last EXCEPT !.tool = "_normalize_tool_calls",
                            !.res = _normalize_tool_calls(last.arguments)]
    /\ UNCHANGED <<todos, next_todo_id, clock, conversations, messages, req, nreq, ncalls,
                   trace, api_key>>

\* the list returned, as the value of a second call
AsToolCalls(normalized) == PyList([k \in 1..Len(normalized) |-> PyDict(normalized[k])])

\* self._normalize_tool_calls(normalized)
NormalizeAgain ==
    /\ last.tool = "_normalize_tool_calls"
    /\ last' = [last EXCEPT !.tool = "_normalize_tool_calls again",
                            !.res = _normalize_tool_calls(AsToolCalls(last.res))]
    /\ UNCHANGED <<todos, next_todo_id, clock, conversations, messages, req, nreq, ncalls,
                   trace, api_key>>

\* the dict _build_messages makes of an assistant turn of the history whose
\* tool_calls is the value
BuildTurn ==
    /\ last.tool = ""
    /\ last' = [last EXCEPT
                   !.tool = "_build_messages",
                   !.res = HistoryDict([role |-> "assistant", content |-> Text(""),
                                        tool_calls |-> last.arguments,
                                        tool_call_id |-> None, name |-> None])]
    /\ UNCHANGED <<todos, next_todo_id, clock, conversations, messages, req, nreq, ncalls,
                   trace, api_key>>

NextNormalize == Normalize \/ NormalizeAgain \/ BuildTurn

SpecNormalize == InitNormalize /\ [][NextNormalize]_vars

----------------------------------------------------------------------------
\* Properties of the orchestrator's message list

IsAssistantWithCalls(m) ==
    m.role = "assistant" /\ HasKey(m, "tool_calls") /\ m.tool_calls # <<>>

\* in list, from position from on, each assistant message with N tool calls is
\* followed by exactly N tool messages answering its calls in request order
WellPaired(list, from) ==
    \A i \in from..Len(list) :
        IsAssistantWithCalls(list[i]) =>
            LET n == Len(list[i].tool_calls)
            IN  /\ i + n <= Len(list)
                /\ \A j \in 1..n :
                      /\ list[i + j].role = "tool"
                      /\ list[i + j].tool_call_id = list[i].tool_calls[j].id
                /\ (i + n < Len(list) => list[i + n + 1].role # "tool")

PersistedTurns(c) == SelectSeq2(messages, c)

\* C2: in the persisted turns of every conversation each assistant turn carrying N
\* tool-invocation requests is immediately followed by exactly N tool-role turns
\* whose tool_call_ids are distinct and drawn from that turn's requests
C2_PersistedPaired ==
    \A c \in DOMAIN conversations :
        LET turns == PersistedTurns(c)
        IN  \A i \in 1..Len(turns) :
                (turns[i].role = "assistant" /\ Truthy(turns[i].tool_calls)) =>
                    LET calls == _normalize_tool_calls(turns[i].tool_calls)
                        n == Len(calls)
                    IN  /\ i + n <= Len(turns)
                        /\ \A j \in 1..n :
                              /\ turns[i + j].role = "tool"
                              /\ turns[i + j].tool_call_id \in
                                    {Some(calls[k].id) : k \in 1..n}
                        /\ \A j, k \in 1..n :
                              j # k => turns[i + j].tool_call_id # turns[i + k].tool_call_id

\* C3: the outbound list built from the reloaded history has every assistant message
\* that carries tool_calls immediately followed by the tool message answering it
C3_ReplayPaired ==
    \A r \in Slots :
        trace[r].ncompl >= 1 =>
            LET built == SubSeq(trace[r].submitted, 1, req[r].base)
            IN  \A i \in 1..Len(built) :
                    IsAssistantWithCalls(built[i]) =>
                        /\ i < Len(built)
                        /\ built[i + 1].role = "tool"
                        /\ built[i + 1].tool_call_id = built[i].tool_calls[1].id

\* C4: every call_tool the orchestrator makes carries as user_id the authenticated
\* user of the run, whatever the completion response put in the arguments
C4_InjectedUser ==
    \A r \in Slots :
        \A i \in 1..Len(trace[r].dispatched) :
            /\ HasKey(trace[r].dispatched[i].arguments, "user_id")
            /\ trace[r].dispatched[i].arguments.user_id = req[r].user

\* a dispatched invocation whose requested arguments named the other user
C4_Witness ==
    \E r \in Slots :
        \E i \in 1..Len(trace[r].dispatched) :
            \E k \in 1..Len(req[r].message.tool_calls) :
                /\ req[r].message.tool_calls[k].id = trace[r].dispatched[i].tool_call_id
                /\ req[r].message.tool_calls[k].function.arguments.kind = "object"
                /\ HasKey(req[r].message.tool_calls[k].function.arguments.val, "user_id")
                /\ req[r].message.tool_calls[k].function.arguments.val.user_id
                      = OtherUser(req[r].user)
                /\ trace[r].dispatched[i].res.success

----------------------------------------------------------------------------
\* Properties of the task tools (SpecTools); last is the latest call_tool: its
\* arguments, its MCPToolResult and the tasks table before it

\* the ids of the tasks an MCPToolResult returns
ReturnedIds(result) ==
    (IF HasKey(result, "task") /\ result.task # None THEN {TheVal(result.task).id} ELSE {})
    \cup (IF HasKey(result, "tasks")
          THEN {result.tasks[k].id : k \in 1..Len(result.tasks)} ELSE {})
    \cup (IF HasKey(result, "deleted_task") /\ result.deleted_task # None
          THEN {TheVal(result.deleted_task).id} ELSE {})

OwnerOf(id) ==
    IF id \in DOMAIN last.before THEN last.before[id].user_id ELSE todos[id].user_id

\* the latest call named, with valid arguments and the storage up, a task of another user
ForeignTaskCall ==
    /\ last.tool \in {"update_task", "complete_task", "delete_task"}
    /\ last.up
    /\ INPUT_SCHEMAS(last.tool, last.arguments) # None
    /\ last.arguments.task_id \in DOMAIN last.before
    /\ last.before[last.arguments.task_id].user_id # last.arguments.user_id

\* C5: an invocation with user_id U returns only tasks of U and leaves every task of
\* another owner as it was; update, complete and delete on another user's task id give
\* TASK_NOT_FOUND, the very result they give when no task has that id
C5_OwnershipIsolation ==
    last.tool # "" =>
        /\ \A id \in ReturnedIds(last.res.result) : OwnerOf(id) = last.arguments.user_id
        /\ \A id \in DOMAIN last.before :
              last.before[id].user_id # last.arguments.user_id =>
                  id \in DOMAIN todos /\ todos[id] = last.before[id]
        /\ ForeignTaskCall =>
              /\ last.res.error = Err("TASK_NOT_FOUND", <<last.arguments.task_id>>)
              /\ last.res = call_tool([todos |-> DelRow(last.before, last.arguments.task_id),
                                       next_id |-> next_todo_id, now |-> clock - 1],
                                      last.tool, last.arguments, TRUE).res

\* a delete of another user's task was answered
C5_Witness ==
    /\ ForeignTaskCall
    /\ last.tool = "delete_task"
    /\ last.arguments.task_id \in DOMAIN todos

----------------------------------------------------------------------------
\* Properties of the chat endpoint and of a run

\* C6: a chat request naming a conversation id of another user, or one that does not
\* exist, is answered 404 with the same body, and creates no conversation, persists
\* no turn and invokes no tool
C6_ForeignConversationNotFound ==
    [][\A r \in Slots :
          (/\ req[r].pc = "idle"
           /\ nreq' = nreq + 1
           /\ req'[r].conversation_id # None
           /\ \/ TheVal(req'[r].conversation_id) \notin DOMAIN conversations
              \/ conversations[TheVal(req'[r].conversation_id)].user_id # req'[r].user)
          => /\ trace'[r].http = NotFound404
             /\ req'[r].pc = "idle"
             /\ conversations' = conversations
             /\ messages' = messages
             /\ todos' = todos
             /\ ncalls' = ncalls
             /\ trace'[r].ncompl = 0
             /\ trace'[r].dispatched = <<>>]_vars

\* a request named an existing conversation of another user
C6_Witness ==
    \E r \in Slots :
        /\ req[r].pc = "idle"
        /\ req[r].conversation_id # None
        /\ TheVal(req[r].conversation_id) \in DOMAIN conversations
        /\ conversations[TheVal(req[r].conversation_id)].user_id # req[r].user
        /\ req[r].user \in Users
        /\ trace[r].http = NotFound404

\* C7: once the invocations of a round are done with, every one of them has its tool
\* message in the run's list: no invocation, whatever its outcome, ends the round early
C7_RoundNeverAborts ==
    \A r \in Slots :
        req[r].pc # "tools" => WellPaired(req[r].msgs, req[r].base + 1)

\* the tool message in list that answers the invocation id
ToolMessageOf(list, id) ==
    list[CHOOSE i \in 1..Len(list) : list[i].role = "tool" /\ list[i].tool_call_id = id]

\* the JSON text content is an object whose error field holds code
CarriesError(content, code) ==
    /\ content.kind = "object"
    /\ HasKey(content.val, "error")
    /\ content.val.error # None
    /\ TheVal(content.val.error)[1] = code

\* C8: when call_tool answers UNKNOWN_TOOL or VALIDATION_ERROR, the tool message sent
\* back for that invocation carries that error code in its content
C8_RegistryErrorInContent ==
    \A r \in Slots :
        \A i \in 1..Len(trace[r].dispatched) :
            \A code \in {"UNKNOWN_TOOL", "VALIDATION_ERROR"} :
                (/\ trace[r].dispatched[i].res.result = EmptyDict
                 /\ trace[r].dispatched[i].res.error # None
                 /\ TheVal(trace[r].dispatched[i].res.error)[1] = code)
                => CarriesError(ToolMessageOf(req[r].msgs,
                                              trace[r].dispatched[i].tool_call_id).content,
                                code)

\* C9: the step in which a completion call fails returns from run with finish_reason
\* "error" and a user-facing message, undoes no task mutation and no message of the
\* run, and after it the run executes no tool and makes no completion call
C9_CompletionFailure ==
    [][\A r \in Slots :
          /\ (~trace[r].completion_failed /\ trace'[r].completion_failed)
             => /\ req'[r].pc = "persist"
                /\ req'[r].agent_response.finish_reason = "error"
                /\ req'[r].agent_response.message \in
                      {"I encountered an error",
                       "I encountered an error calling the AI service"}
                /\ req'[r].agent_response.tool_calls = req[r].tool_calls_log
                /\ req'[r].agent_response.intermediate_messages
                      = req[r].intermediate_messages
                /\ todos' = todos
                /\ messages' = messages
                /\ conversations' = conversations
          /\ (trace[r].completion_failed /\ trace'[r].completion_failed)
             => /\ todos' = todos
                /\ trace'[r].dispatched = trace[r].dispatched
                /\ trace'[r].ncompl = trace[r].ncompl
                /\ req'[r].pc \in {"persist", "idle"}]_vars

\* a resubmission failed after the run had created a task
C9_Witness ==
    \E r \in Slots :
        /\ trace[r].completion_failed
        /\ trace[r].ncompl >= 2
        /\ req[r].agent_response.finish_reason = "error"
        /\ \E i \in 1..Len(req[r].tool_calls_log) :
              /\ req[r].tool_calls_log[i].success
              /\ req[r].tool_calls_log[i].tool_name = "add_task"
              /\ TheVal(req[r].tool_calls_log[i].result.task).id \in DOMAIN todos

\* the log entries run owes for the invocations it has dispatched
DispatchedLog(dispatched) ==
    [i \in 1..Len(dispatched) |->
        [tool_call_id |-> dispatched[i].tool_call_id,
         tool_name |-> dispatched[i].name,
         arguments |-> PyDict(dispatched[i].arguments),
         result |-> dispatched[i].res.result,
         success |-> dispatched[i].res.success]]

WasDispatched(r, entry) ==
    \E i \in 1..Len(trace[r].dispatched) :
        trace[r].dispatched[i].tool_call_id = entry.tool_call_id

\* C10: the tool-call log a run returns holds, in execution order, exactly one entry
\* for every invocation the run executed, also when the run ends in the error state
C10_LogComplete ==
    \A r \in Slots :
        (req[r].pc = "persist" /\ req[r].agent_response # NotConfigured) =>
            SelectSeq(req[r].agent_response.tool_calls, LAMBDA e : WasDispatched(r, e))
                = DispatchedLog(trace[r].dispatched)

----------------------------------------------------------------------------
\* Properties of the runs of SpecCeiling

\* the tool rounds a run has started: its assistant messages that carry tool calls
Rounds(q) ==
    Cardinality({i \in 1..Len(q.intermediate_messages) :
                    IsAssistantWithCalls(q.intermediate_messages[i])})

RunBounded ==
    \A r \in Slots :
        /\ req[r].iteration <= max_iterations
        /\ Rounds(req[r]) <= max_iterations
        /\ trace[r].ncompl <= max_iterations + 1

\* the most tool calls one response asks for
MaxBatch ==
    CHOOSE n \in {Len(items) : items \in CeilingRequests} :
        \A items \in CeilingRequests : Len(items) <= n

\* a bound on the steps a run still has to take: 0 once it has returned
Rank(r) ==
    IF req[r].pc = "persist" THEN 0
    ELSE (max_iterations + 1 - trace[r].ncompl) * (MaxBatch + 2)
         + (IF req[r].pc = "tools" THEN Len(req[r].message.tool_calls) - req[r].k + 2
            ELSE IF req[r].pc = "resubmit" THEN 1 ELSE 0)

\* the run has returned, with no error, or stands before a step it can take
ReturnedOrAtStep(r) ==
    \/ req[r].pc = "persist" /\ req[r].agent_response.finish_reason # "error"
    \/ req[r].pc = "tools" /\ req[r].k \in 1..Len(req[r].message.tool_calls)
    \/ req[r].pc \in {"run", "resubmit"}

\* C11: every step of a run lowers a natural-number bound on the steps left, so every
\* run ends, also one whose every response asks for tools; it never executes more than
\* 10 tool rounds, and where it ends it has returned a response that is no error
C11_RunTerminates ==
    [][\A r \in Slots :
          /\ Rank(r) \in Nat
          /\ Rank(r)' \in Nat
          /\ Rank(r)' < Rank(r)
          /\ RunBounded'
          /\ ReturnedOrAtStep(r)']_vars

\* a run returned after 10 tool rounds although the last response asked for tools again
C11_Witness ==
    \E r \in Slots :
        /\ req[r].pc = "persist"
        /\ Rounds(req[r]) = max_iterations
        /\ req[r].response.message.tool_calls # <<>>
        /\ req[r].agent_response.finish_reason = "tool_calls"

\* C12: when k < 10 responses in a row ask for tools, every invocation succeeds and
\* the next response is plain text, the run has made k + 1 completion calls and returns
\* that text, the finish reason of that response, and a log with one successful entry
\* for each invocation requested
C12_ChainThenText ==
    \A r \in Slots :
        (/\ req[r].pc = "persist"
         /\ req[r].response.message.tool_calls = <<>>
         /\ Rounds(req[r]) < max_iterations
         /\ \A i \in 1..Len(req[r].tool_calls_log) : req[r].tool_calls_log[i].success)
        => /\ trace[r].ncompl = Rounds(req[r]) + 1
           /\ req[r].agent_response.message = TheVal(req[r].response.message.content)
           /\ req[r].agent_response.finish_reason = req[r].response.finish_reason
           /\ Len(req[r].agent_response.tool_calls) = ncalls
           /\ \A i \in 1..ncalls :
                 /\ req[r].agent_response.tool_calls[i].success
                 /\ req[r].agent_response.tool_calls[i].tool_call_id = i

\* two chained invocations, then text: a log of length 2 after 3 completion calls
C12_Witness ==
    \E r \in Slots :
        /\ req[r].pc = "persist"
        /\ req[r].response.message.tool_calls = <<>>
        /\ Rounds(req[r]) = 2
        /\ Len(req[r].agent_response.tool_calls) = 2
        /\ trace[r].ncompl = 3

----------------------------------------------------------------------------
\* Properties of the tool handlers

\* the latest call was update_task with a user_id and a task_id but no field to update
UpdateWithoutFields ==
    /\ last.tool = "update_task"
    /\ last.up
    /\ HasKey(last.arguments, "user_id")
    /\ HasKey(last.arguments, "task_id")
    /\ ~HasKey(last.arguments, "title")
    /\ ~HasKey(last.arguments, "description")

\* C13: update_task with a user_id and a task_id but neither title nor description
\* answers VALIDATION_ERROR for every task id, existing or not, and leaves every
\* task as it was
C13_NoFieldsIsValidationError ==
    UpdateWithoutFields =>
        /\ last.res.success = FALSE
        /\ last.res.error # None
        /\ TheVal(last.res.error)[1] = "VALIDATION_ERROR"
        /\ todos = last.before

\* the latest call's arguments fail validation: the input model rejects them, or
\* they are an update_task with no field to update
InvalidArguments ==
    /\ last.tool \in TOOL_HANDLERS
    /\ \/ INPUT_SCHEMAS(last.tool, last.arguments) = None
       \/ /\ last.tool = "update_task"
          /\ ~HasKey(last.arguments, "title")
          /\ ~HasKey(last.arguments, "description")

\* C14: an invocation whose arguments fail validation is answered VALIDATION_ERROR
\* without reaching the storage: the answer is the same whether or not the storage
\* is available, and the task store is unchanged
C14_InvalidNeverReachesStorage ==
    InvalidArguments =>
        /\ last.res.success = FALSE
        /\ last.res.error # None
        /\ TheVal(last.res.error)[1] = "VALIDATION_ERROR"
        /\ last.res = call_tool([todos |-> last.before, next_id |-> next_todo_id,
                                 now |-> clock - 1],
                                last.tool, last.arguments, ~last.up).res
        /\ todos = last.before

\* what list_tasks with no filter answers to user u on the rows
ListOf(rows, u) ==
    call_tool([todos |-> rows, next_id |-> next_todo_id, now |-> clock],
              "list_tasks", [user_id |-> u], TRUE).res.result

\* the latest call was an add_task that succeeded
AddedTask == last.tool = "add_task" /\ last.res.success

\* C15: list_tasks(U) with no filter, called after a successful add_task(U, title),
\* returns a list containing a task with the trimmed title and completed = false; its
\* total is one more than before the add, the lists of the other users are as they
\* were, and from an empty store the list has length 1
C15_AddThenList ==
    [][(/\ AddedTask
        /\ last'.tool = "list_tasks"
        /\ last'.up
        /\ last'.arguments = [user_id |-> last.arguments.user_id])
       => /\ last'.res.success
          /\ \E k \in 1..Len(last'.res.result.tasks) :
                /\ last'.res.result.tasks[k].title = strip(last.arguments.title)
                /\ last'.res.result.tasks[k].completed = FALSE
                /\ last'.res.result.tasks[k].id = TheVal(last.res.result.task).id
          /\ last'.res.result.total = ListOf(last.before, last.arguments.user_id).total + 1
          /\ \A v \in Users \ {last.arguments.user_id} :
                ListOf(todos, v) = ListOf(last.before, v)
          /\ (last.before = NoRows => Len(last'.res.result.tasks) = 1)]_vars

\* u1 added a padded title to the empty store and then listed its tasks
C15_Witness ==
    /\ clock = 3
    /\ last.tool = "list_tasks"
    /\ last.arguments = [user_id |-> "u1"]
    /\ last.res.success
    /\ last.res.result.total = 1
    /\ Len(last.res.result.tasks) = 1
    /\ last.res.result.tasks[1].title = T_a
    /\ last.res.result.tasks[1].completed = FALSE

\* the latest call was an update, complete or delete, with accepted arguments and the
\* storage up, of a task id that no task owned by the caller had
NotOwnedTaskCall ==
    /\ last.tool \in {"update_task", "complete_task", "delete_task"}
    /\ last.up
    /\ INPUT_SCHEMAS(last.tool, last.arguments) # None
    /\ _get_user_task(last.before, last.arguments.user_id, last.arguments.task_id) = None

\* C16: update_task, complete_task and delete_task on a task id that no task of the
\* caller has return, without raising, a structured result with success false and
\* error TASK_NOT_FOUND, and leave the whole task store unchanged
C16_NotFoundIsStructured ==
    NotOwnedTaskCall =>
        /\ invoke_tool([todos |-> last.before, next_id |-> next_todo_id, now |-> clock - 1],
                       last.tool, last.arguments, TRUE).raised = ""
        /\ last.res.success = FALSE
        /\ last.res.result # EmptyDict
        /\ last.res.result.success = FALSE
        /\ last.res.result.error = Err("TASK_NOT_FOUND", <<last.arguments.task_id>>)
        /\ last.res.error = last.res.result.error
        /\ todos = last.before

\* a delete of an id that no task has was answered while the store held a task
C16_Witness ==
    /\ NotOwnedTaskCall
    /\ last.tool = "delete_task"
    /\ last.arguments.task_id \notin DOMAIN last.before
    /\ last.before # NoRows
    /\ last.res.success = FALSE

\* needle occurs in hay as a run of consecutive characters, letter case ignored
ContainsFold(hay, needle) ==
    \E i \in 0..(Len(hay) - Len(needle)) :
        \A j \in 1..Len(needle) : Lower(hay[i + j]) = Lower(needle[j])

\* the rows of u that pass the completion filter and whose title contains the search text
Filtered(rows, inp) ==
    {i \in DOMAIN rows :
        /\ rows[i].user_id = inp.user_id
        /\ (inp.completed # None => rows[i].completed = TheVal(inp.completed))
        /\ (inp.search # None =>
               ContainsFold(Expand(rows[i].title), Expand(TheVal(inp.search))))}

\* s is ordered newest-created first
NewestFirstOrder(s) ==
    \A i, j \in 1..Len(s) : i < j => s[i].created_at >= s[j].created_at

\* the answer is a page of the filtered rows of the store
IsPageOf(out, rows, inp, S) ==
    /\ out.total = Cardinality(S)
    /\ Len(out.tasks) = Min(inp.limit, IF Cardinality(S) > inp.offset
                                        THEN Cardinality(S) - inp.offset ELSE 0)
    /\ NewestFirstOrder(out.tasks)
    /\ \A k \in 1..Len(out.tasks) :
          /\ out.tasks[k].id \in S
          /\ out.tasks[k] = _todo_to_task_result(rows[out.tasks[k].id])
          /\ Cardinality({i \in S : rows[i].created_at > out.tasks[k].created_at})
             <= inp.offset + k - 1
    /\ \A k1, k2 \in 1..Len(out.tasks) : k1 # k2 => out.tasks[k1].id # out.tasks[k2].id

\* the latest call was a list_tasks with accepted arguments and the storage up
ListedTasks ==
    /\ last.tool = "list_tasks"
    /\ last.up
    /\ INPUT_SCHEMAS(last.tool, last.arguments) # None

\* C17: list_tasks returns only tasks of the caller that pass the completion filter and
\* whose title contains the search text, newest-created first, at most limit of them
\* starting at offset, and total counts the caller's matching tasks before pagination
C17_ListFiltersAndPages ==
    ListedTasks =>
        /\ last.res.success
        /\ todos = last.before
        /\ \E inp \in INPUT_SCHEMAS(last.tool, last.arguments) :
              IsPageOf(last.res.result, last.before, inp, Filtered(last.before, inp))

----------------------------------------------------------------------------
\* Properties of the todos table under the tools and the REST update

\* the step changed the title, the description or the completed flag of task id
TaskChanged(id) ==
    /\ id \in DOMAIN todos
    /\ id \in DOMAIN todos'
    /\ \/ todos'[id].title # todos[id].title
       \/ todos'[id].description # todos[id].description
       \/ todos'[id].completed # todos[id].completed

\* C18: every successful change of a task's title, description or completed flag,
\* by update_task, complete_task or the REST update_todo, comes with a later updated_at
C18_UpdatedAtAdvances ==
    [][\A id \in TaskIdArgs :
          TaskChanged(id) => todos'[id].updated_at > todos[id].updated_at]_vars

\* the task store with updated_at left out
IgnoringUpdatedAt(rows) == [i \in DOMAIN rows |-> [rows[i] EXCEPT !.updated_at = 0]]

\* the step repeats the latest call: same mutation tool, same arguments, storage up
RepeatedMutation ==
    /\ last.tool \in {"add_task", "update_task", "complete_task", "delete_task"}
    /\ last.up
    /\ last'.tool = last.tool
    /\ last'.arguments = last.arguments
    /\ last'.up

\* C19: a mutation tool invoked twice in succession with identical arguments leaves
\* the task store, updated_at ignored, as the first invocation left it
C19_MutationsIdempotent ==
    [][RepeatedMutation => IgnoringUpdatedAt(todos') = IgnoringUpdatedAt(todos)]_vars

----------------------------------------------------------------------------
\* Properties of the normalization

\* tc is an entry in the storage shape: tool_call_id, tool_name and an arguments map
StorageShape(tc) ==
    /\ tc.t = "dict"
    /\ HasKey(tc.v, "tool_call_id")
    /\ HasKey(tc.v, "tool_name")
    /\ HasKey(tc.v, "arguments")
    /\ tc.v.arguments.t = "dict"

\* tc is an entry in the wire shape
WireShape(tc) ==
    tc.t = "dict" /\ HasKey(tc.v, "id") /\ HasKey(tc.v, "type") /\ HasKey(tc.v, "function")

\* tool_calls is a list of entries each in the storage shape or in the wire shape
WellFormedList(tool_calls) ==
    /\ tool_calls.t = "list"
    /\ \A k \in 1..Len(tool_calls.v) :
          StorageShape(tool_calls.v[k]) \/ WireShape(tool_calls.v[k])

\* out is the wire form of the entry tc
WireFormOf(out, tc) ==
    IF WireShape(tc) THEN out = tc.v
    ELSE /\ out.id = tc.v.tool_call_id
         /\ out.type = "function"
         /\ out.function.name = tc.v.tool_name
         /\ out.function.arguments.kind # "text"
         /\ json_loads(out.function.arguments) = Some(tc.v.arguments)

\* C20: _normalize_tool_calls turns a list of storage-shape entries into a wire-shape
\* list of the same length and order, each entry carrying the id, the tool name and a
\* JSON string that parses back to the arguments map; an entry already in the wire
\* shape is returned unchanged, and normalizing the result again changes nothing
C20_NormalizeRoundTrip ==
    [][/\ (last.tool = "" /\ last'.tool = "_normalize_tool_calls"
           /\ WellFormedList(last.arguments))
          => /\ Len(last'.res) = Len(last.arguments.v)
             /\ \A k \in 1..Len(last.arguments.v) :
                   WireFormOf(last'.res[k], last.arguments.v[k])
       /\ (last.tool = "_normalize_tool_calls" /\ last'.tool = "_normalize_tool_calls again")
          => last'.res = last.res]_vars

\* a list of two storage-shape entries with different ids was normalized twice
C20_Witness ==
    /\ last.tool = "_normalize_tool_calls again"
    /\ last.arguments.t = "list"
    /\ Len(last.arguments.v) = 2
    /\ \A k \in 1..2 : StorageShape(last.arguments.v[k])
    /\ last.arguments.v[1].v.tool_call_id = "call_2"
    /\ last.arguments.v[2].v.tool_call_id = "call_1"
    /\ last.arguments.v[1].v.arguments.v # EmptyDict
    /\ Len(last.res) = 2
    /\ last.res[1].id = "call_2"

----------------------------------------------------------------------------
\* Chat requests on a conversation that already holds many turns: the state a
\* process finds after n/2 earlier requests of u1 that were answered with text.

\* the i-th stored turn of conversation 1: user and assistant turns alternate
StoredTurn(i) ==
    [id |-> i, conversation_id |-> 1, user_id |-> "u1",
     role |-> IF i % 2 = 1 THEN "user" ELSE "assistant",
     content |-> Text(IF i % 2 = 1 THEN "hi" ELSE "ok"),
     tool_calls |-> PyNone, tool_call_id |-> None, name |-> None,
     created_at |-> i + 1]

\* numbers of stored turns the requests start from
StoredTurnCounts == {HistoryLimit - 2, HistoryLimit, HistoryLimit + 2}

InitHistory ==
    \E n \in StoredTurnCounts :
        /\ todos = NoRows
        /\ next_todo_id = 1
        /\ clock = n + 2
        /\ conversations = PutRow(NoRows, [id |-> 1, user_id |-> "u1", title |-> None,
                                           created_at |-> 1, updated_at |-> n + 1])
        /\ messages = [i \in 1..n |-> StoredTurn(i)]
        /\ req = [r \in Slots |-> IdleReq]
        /\ nreq = 0
        /\ ncalls = 0
        /\ last = NoCall
        /\ api_key = TRUE
        /\ trace = [r \in Slots |-> NoTrace]

SpecHistory == InitHistory /\ [][Next]_vars

\* the last n elements of s
LastOf(s, n) == SubSeq(s, IF Len(s) > n THEN Len(s) - n + 1 ELSE 1, Len(s))

\* C21: on a request for an existing conversation the history loaded for the run is
\* the conversation's persisted turns, oldest first, and the most recent 50 of them
\* when there are more; the list handed to the completion capability is built from it
C21_HistoryFromPersistedTurns ==
    [][\A r \in Slots :
          /\ (req[r].pc = "history" /\ req[r].conversation_id # None
              /\ req'[r].pc = "save_user")
             => req'[r].conversation_messages =
                   LastOf(SelectSeq2(messages, req[r].conversation), HistoryLimit)
          /\ (req[r].pc = "run" /\ trace'[r].ncompl = 1)
             => SubSeq(trace'[r].submitted, 2, Len(req[r].conversation_messages) + 1) =
                   [i \in 1..Len(req[r].conversation_messages) |->
                       HistoryDict(AgentMessage(req[r].conversation_messages[i]))]]_vars

----------------------------------------------------------------------------
\* app/agent/intent_classifier.py. A message is the sequence of its words; a
\* regular expression of INTENT_PATTERNS is the sequence of its parts, the parts
\* being joined by ".*" in the source, and a part is the set of word phrases its
\* alternatives and optional groups spell out. Weights are in hundredths.

INTENT_PATTERNS ==
  LET W1(ws) == {<<w>> : w \in ws}
      W2(as, bs) == {<<a, b>> : a \in as, b \in bs}
      Rule(intent, pattern, weight) ==
          [intent |-> intent, pattern |-> pattern, weight |-> weight]
  IN
    << Rule("create_task", <<W1({"add", "create", "new", "make"}), W1({"task", "todo", "item"})>>, 90),
       Rule("create_task", <<{<<"new", "task">>}>>, 95),
       Rule("create_task", <<W1({"add"}), W1({"to"}), W1({"list"})>>, 85),
       Rule("create_task", <<W1({"put"}), W1({"on"}), W1({"list"})>>, 85),
       Rule("create_task", <<W1({"remind", "remember"}), W1({"to"})>>, 70),
       Rule("create_task", <<{<<"i", v, "to">> : v \in {"need", "have", "got", "gotta"}}>>, 65),
       Rule("create_task", <<{<<d, "forget">> : d \in {"don't", "dont"}}
                             \cup {<<d, "let", "me", "forget">> : d \in {"don't", "dont"}}>>, 70),
       Rule("create_task", <<{<<"i", "should">>}>>, 45),
       Rule("view_tasks", <<W1({"show", "list", "view", "display", "see"}),
                            W1({"task", "todo", "list", "all"})>>, 90),
       Rule("view_tasks", <<W1({"what"}), W1({"task", "todo", "do", "have"})>>, 85),
       Rule("view_tasks", <<W2({"my"}, {"task", "tasks", "todo", "todos", "list"})>>, 80),
       Rule("view_tasks", <<W1({"show", "list", "view"}),
                            W1({"complete", "completed", "done", "finished"})>>, 90),
       Rule("view_tasks", <<W1({"show", "list", "view"}),
                            W1({"incomplete", "pending", "remaining"})>>, 90),
       Rule("view_tasks", <<W2({"complete", "completed"}, {"task", "tasks", "todo", "todos"})>>, 90),
       Rule("view_tasks", <<W2({"incomplete"}, {"task", "tasks", "todo", "todos"})>>, 90),
       Rule("view_tasks", <<W1({"anything", "something"}),
                            W1({"pending", "left"}) \cup {<<"to", "do">>}>>, 70),
       Rule("view_tasks", <<{<<w, "on", "my">> : w \in {"what's", "whats"}}>>, 75),
       Rule("view_tasks", <<{<<"what", "do", "i", v, "to">> : v \in {"have", "need"}}>>, 80),
       Rule("edit_task", <<W1({"update", "change", "edit", "modify", "rename", "fix"}),
                           W1({"task"})>>, 90),
       Rule("edit_task", <<W1({"update", "change", "edit", "modify", "rename"}),
                           W1({"title", "description", "name"})>>, 85),
       Rule("edit_task", <<W1({"rename"}), W1({"to"})>>, 80),
       Rule("edit_task", <<W1({"change"}), W1({"to"})>>, 65),
       Rule("edit_task", <<W1({"fix"}), W1({"task"})>>, 70),
       Rule("complete_task", <<W1({"complete", "finish", "done"}), W1({"task"})>>, 90),
       Rule("complete_task", <<W1({"mark"}), W1({"complete", "done", "finished"})>>, 90),
       Rule("complete_task", <<{<<"check", "off">>}>>, 85),
       Rule("complete_task", <<W1({"tick"}), W1({"task"})>>, 80),
       Rule("complete_task", <<W2({"i"}, {"finished", "completed", "did"}), W1({"task"})>>, 85),
       Rule("complete_task", <<W2({"i"}, {"finished", "completed", "did"})>>, 75),
       Rule("complete_task", <<W1({"task"}), W1({"done"})>>, 75),
       Rule("complete_task", <<W1({"uncomplete", "reopen", "undo"})>>, 85),
       Rule("complete_task", <<W1({"mark"}), W1({"incomplete"}) \cup {<<"not", "done">>}>>, 85),
       Rule("delete_task", <<W1({"delete", "remove", "trash", "discard", "erase"}),
                             W1({"task"})>>, 90),
       Rule("delete_task", <<{<<"get", "rid", "of">>}>>, 85),
       Rule("delete_task", <<W2({"don't", "dont"}, {"need"}),
                             W1({"anymore"}) \cup {<<"any", "more">>}>>, 70),
       Rule("delete_task", <<W1({"cancel"}), W1({"task"})>>, 65),
       Rule("delete_task", <<W1({"remove"}), W1({"from"}), W1({"list"})>>, 80) >>

INTENT_TO_TOOL(intent) ==
    CASE intent = "create_task" -> Some("add_task")
      [] intent = "view_tasks" -> Some("list_tasks")
      [] intent = "edit_task" -> Some("update_task")
      [] intent = "complete_task" -> Some("complete_task")
      [] intent = "delete_task" -> Some("delete_task")
      [] intent = "unknown" -> None

\* str.lower() of one word; the words of a message are lower case but for "Task", "I"
LowerWord(w) == IF w = "Task" THEN "task" ELSE IF w = "I" THEN "i" ELSE w

\* message.lower().strip()
LowerWords(message) == [i \in 1..Len(message) |-> LowerWord(message[i])]

\* int() of the words that are digits only
int == [w \in {"3"} |-> 3]

\* re.search(pattern, m): the parts occur in m in order, from position i on
RECURSIVE re_search_from(_, _, _)
re_search_from(pattern, m, i) ==
    LET PhraseAt(ph, p) ==
            /\ p + Len(ph) - 1 <= Len(m)
            /\ \A j \in 1..Len(ph) : m[p + j - 1] = ph[j]
    IN  IF pattern = <<>> THEN TRUE
        ELSE \E p \in i..Len(m) : \E ph \in Head(pattern) :
                /\ PhraseAt(ph, p)
                /\ re_search_from(Tail(pattern), m, p + Len(ph))

re_search(pattern, m) == re_search_from(pattern, m, 1)

\* re.search(TASK_ID_PATTERN, message, re.IGNORECASE): the number after the leftmost
\* "task" that a number follows, or the message when it is one number; else None
TASK_ID_PATTERN(message) ==
    LET at == {i \in 1..(Len(message) - 1) :
                  LowerWord(message[i]) = "task" /\ message[i + 1] \in DOMAIN int}
    IN  IF at # {} THEN Some(message[(CHOOSE i \in at : \A j \in at : i <= j) + 1])
        ELSE IF Len(message) = 1 /\ message[1] \in DOMAIN int THEN Some(message[1])
        ELSE None

get_confidence_levelNoLow(confidence) ==
    IF confidence >= 70 THEN "high"
    ELSE IF confidence >= 50 THEN "medium"
    ELSE "uncertain"

get_confidence_level(confidence) ==
    IF confidence >= 70 THEN "high"
    ELSE IF confidence >= 50 THEN "medium"
    ELSE IF confidence >= 30 THEN "low"
    ELSE "uncertain"

\* lines 151-160 with >= in place of >: a later rule of equal weight replaces the best
RECURSIVE BestMatchLastWins(_, _, _)
BestMatchLastWins(message_lower, i, best) ==
    IF i > Len(INTENT_PATTERNS) THEN best
    ELSE BestMatchLastWins(message_lower, i + 1,
             IF re_search(INTENT_PATTERNS[i].pattern, message_lower)
                /\ INTENT_PATTERNS[i].weight >= best.confidence
             THEN [intent |-> INTENT_PATTERNS[i].intent,
                   confidence |-> INTENT_PATTERNS[i].weight]
             ELSE best)

\* lines 151-160: the loop over the rules from the i-th on, best being the best so far
RECURSIVE BestMatch(_, _, _)
BestMatch(message_lower, i, best) ==
    IF i > Len(INTENT_PATTERNS) THEN best
    ELSE BestMatch(message_lower, i + 1,
             IF re_search(INTENT_PATTERNS[i].pattern, message_lower)
                /\ INTENT_PATTERNS[i].weight > best.confidence
             THEN [intent |-> INTENT_PATTERNS[i].intent,
                   confidence |-> INTENT_PATTERNS[i].weight]
             ELSE best)

\* the task_id entry of extract_parameters; the other entries are left out
extract_parameters(message, intent) ==
    IF TASK_ID_PATTERN(message) = None THEN EmptyDict
    ELSE [task_id |-> int[TheVal(TASK_ID_PATTERN(message))]]

get_help_message == "I'm not sure what you'd like to do."

get_clarification_question(intent) ==
    CASE intent = "create_task" -> "What would you like to add to your task list?"
      [] intent = "view_tasks" -> "Would you like to see all tasks, or filter by status?"
      [] intent = "edit_task" -> "Which task would you like to edit?"
      [] intent = "complete_task" -> "Which task did you complete?"
      [] intent = "delete_task" -> "Which task would you like to delete?"
      [] OTHER -> get_help_message

classify_intent(message) ==
    LET Result(best, level, params) ==
            [intent |-> best.intent,
             confidence |-> best.confidence,
             confidence_level |-> level,
             tool_name |-> INTENT_TO_TOOL(best.intent),
             extracted_params |-> params,
             requires_clarification |->
                 \/ level \in {"uncertain", "low"}
                 \/ /\ best.intent \in {"edit_task", "complete_task", "delete_task"}
                    /\ ~HasKey(params, "task_id"),
             clarification_question |->
                 IF level = "uncertain" THEN Some(get_help_message)
                 ELSE IF level = "low" THEN Some(get_clarification_question(best.intent))
                 ELSE IF /\ best.intent \in {"edit_task", "complete_task", "delete_task"}
                         /\ ~HasKey(params, "task_id")
                 THEN Some("Which task did you mean? Please specify the task number.")
                 ELSE None]
        With(best) == Result(best, get_confidence_level(best.confidence),
                             extract_parameters(message, best.intent))
    IN  With(BestMatch(LowerWords(message), 1, [intent |-> "unknown", confidence |-> 0]))

\* the messages of up to MaxWords words, and two longer example messages
Messages ==
    UNION {[1..n -> {"mark", "Task", "task", "3", "done", "add", "i", "should",
                     "cancel", "as"}] : n \in 0..MaxWords}
    \cup {<<"mark", "task", "3", "as", "done">>, <<"I", "should", "clean">>}

InitIntent ==
    /\ todos = NoRows
    /\ next_todo_id = 1
    /\ clock = 1
    /\ conversations = NoRows
    /\ messages = <<>>
    /\ req = [r \in Slots |-> IdleReq]
    /\ nreq = 0
    /\ ncalls = 0
    /\ api_key = TRUE
    /\ trace = [r \in Slots |-> NoTrace]
    /\ \E message \in Messages : last = NotNormalized(message)

\* result = classify_intent(message)
Classify ==
    /\ last.tool = ""
    /\ last' = [last EXCEPT !.tool = "classify_intent", !.res = classify_intent(last.arguments)]
    /\ UNCHANGED <<todos, next_todo_id, clock, conversations, messages, req, nreq, ncalls,
                   trace, api_key>>

SpecIntent == InitIntent /\ [][Classify]_vars

----------------------------------------------------------------------------
\* Properties of the intent classification

\* the latest call classified a message
Classified == last.tool = "classify_intent"

\* the rules that match the message
MatchingRules(message) ==
    {i \in 1..Len(INTENT_PATTERNS) :
        re_search(INTENT_PATTERNS[i].pattern, LowerWords(message))}

\* rule i is the first declared among the rules of M of highest weight
FirstHeaviest(M, i) ==
    /\ i \in M
    /\ \A j \in M : INTENT_PATTERNS[j].weight <= INTENT_PATTERNS[i].weight
    /\ \A j \in M : INTENT_PATTERNS[j].weight = INTENT_PATTERNS[i].weight => i <= j

\* the result res is the one the rules of M call for
ChosenFrom(M, res) ==
    IF M = {}
    THEN res.intent = "unknown" /\ res.confidence = 0 /\ res.tool_name = None
    ELSE \E i \in M :
            /\ FirstHeaviest(M, i)
            /\ res.intent = INTENT_PATTERNS[i].intent
            /\ res.confidence = INTENT_PATTERNS[i].weight
            /\ res.tool_name = INTENT_TO_TOOL(INTENT_PATTERNS[i].intent)
            /\ res.tool_name # None

\* C22: classify_intent answers with the rule of highest weight among all matching
\* rules, the first declared on a tie, and with UNKNOWN, confidence 0 and no tool when
\* none matches; "mark task 3 as done" gives complete_task, task_id 3, confidence >= 0.7
C22_HighestWeightFirstDeclared ==
    Classified =>
        /\ ChosenFrom(MatchingRules(last.arguments), last.res)
        /\ last.arguments = <<"mark", "task", "3", "as", "done">> =>
              /\ last.res.intent = "complete_task"
              /\ last.res.tool_name = Some("complete_task")
              /\ last.res.extracted_params.task_id = 3
              /\ last.res.confidence >= 70

\* "done add task" matches a create rule and a complete rule of weight 0.9 and was
\* classified as create
C22_Witness ==
    /\ Classified
    /\ last.arguments = <<"done", "add", "task">>
    /\ {INTENT_PATTERNS[i].intent :
           i \in {j \in MatchingRules(last.arguments) : INTENT_PATTERNS[j].weight = 90}}
          = {"create_task", "complete_task"}
    /\ last.res.intent = "create_task"
    /\ last.res.confidence = 90

\* the bucket of a confidence
Bucket(confidence) ==
    CASE confidence >= 70 -> "high"
      [] confidence >= 50 /\ confidence < 70 -> "medium"
      [] confidence >= 30 /\ confidence < 50 -> "low"
      [] confidence < 30 -> "uncertain"

\* C23: requires_clarification is set exactly when the confidence is below 0.5 or the
\* operation is update, complete or delete and no task id was extracted; a clarification
\* text is then present; the bucket follows the thresholds 0.7, 0.5 and 0.3; and
\* "I should clean" is in the low or uncertain band and asks for clarification
C23_ClarificationRule ==
    Classified =>
        /\ last.res.requires_clarification <=>
              \/ last.res.confidence < 50
              \/ /\ last.res.intent \in {"edit_task", "complete_task", "delete_task"}
                 /\ TASK_ID_PATTERN(last.arguments) = None
        /\ last.res.requires_clarification => last.res.clarification_question # None
        /\ last.res.confidence_level = Bucket(last.res.confidence)
        /\ last.arguments = <<"I", "should", "clean">> =>
              /\ last.res.confidence <= 49
              /\ last.res.requires_clarification

\* "cancel task" is a delete of medium confidence without a task id: clarification
C23_Witness ==
    /\ Classified
    /\ last.arguments = <<"cancel", "task">>
    /\ last.res.intent = "delete_task"
    /\ last.res.confidence_level = "medium"
    /\ last.res.requires_clarification
    /\ last.res.clarification_question # None

----------------------------------------------------------------------------
\* Properties of a run that ends at the iteration ceiling

\* the run has returned after max_iterations tool rounds
CeilingReached(r) == req[r].pc = "persist" /\ Rounds(req[r]) = max_iterations

\* every assistant message recorded with N invocations is followed by their N tool messages
AllExecuted(ms) ==
    \A i \in 1..Len(ms) :
        IsAssistantWithCalls(ms[i]) =>
            /\ i + Len(ms[i].tool_calls) <= Len(ms)
            /\ \A j \in 1..Len(ms[i].tool_calls) :
                  /\ ms[i + j].role = "tool"
                  /\ ms[i + j].tool_call_id = ms[i].tool_calls[j].id

\* C24: a run that ends at the iteration ceiling returns as reply the text of the last
\* response the completion capability gave, and every invocation of an assistant
\* message it recorded has been executed
C24_CeilingReturnsLastText ==
    \A r \in Slots :
        CeilingReached(r) =>
            /\ req[r].agent_response.message =
                  (IF req[r].response.message.content = None THEN ""
                   ELSE TheVal(req[r].response.message.content))
            /\ AllExecuted(req[r].intermediate_messages)

\* C30: the max-iterations warning is logged exactly by the runs that stopped because
\* of the ceiling; a run ending with a plain answer, in the 10th round too, logs none
C30_WarningOnlyAtCeiling ==
    \A r \in Slots :
        req[r].pc = "persist" =>
            /\ trace[r].warned <=> CeilingReached(r)
            /\ req[r].response.message.tool_calls = <<>> /\ Rounds(req[r]) < max_iterations
                  => ~trace[r].warned

----------------------------------------------------------------------------
\* The list a chat request hands to the completion capability

\* the request of slot r is inside its run and has made its first completion call only,
\* so that the list recorded as submitted is the one _build_messages built
Submitted(r) == req[r].pc \in {"tools", "resubmit", "persist"} /\ trace[r].ncompl = 1

UserTurns(list) == {i \in 1..Len(list) : list[i].role = "user"}

----------------------------------------------------------------------------
\* Frame of the task mutations

\* the latest call was a successful update_task, complete_task or delete_task
MutatedTask ==
    /\ last.tool \in {"update_task", "complete_task", "delete_task"}
    /\ last.res.success

\* C26: a successful update_task, complete_task or delete_task on task X leaves every
\* other task, of the caller and of every other user, unchanged; update_task sets the
\* title and the description only when supplied (a supplied empty description clears
\* it) and never the completed flag; complete_task changes only the completed flag
\* and updated_at
C26_MutationFrame ==
    MutatedTask =>
        LET a == last.arguments
            X == a.task_id
            old == last.before[X]
        IN  /\ X \in DOMAIN last.before
            /\ \A id \in (DOMAIN last.before) \ {X} :
                  id \in DOMAIN todos /\ todos[id] = last.before[id]
            /\ DOMAIN todos \subseteq DOMAIN last.before
            /\ last.tool = "delete_task" => X \notin DOMAIN todos
            /\ last.tool = "update_task" =>
                  /\ X \in DOMAIN todos
                  /\ todos[X].title = (IF HasKey(a, "title") THEN strip(a.title) ELSE old.title)
                  /\ todos[X].description =
                        (IF ~HasKey(a, "description") THEN old.description
                         ELSE IF a.description = <<>> THEN None ELSE Some(a.description))
                  /\ [todos[X] EXCEPT !.title = old.title, !.description = old.description,
                                      !.updated_at = old.updated_at] = old
            /\ last.tool = "complete_task" =>
                  /\ X \in DOMAIN todos
                  /\ todos[X].completed = (IF HasKey(a, "completed") THEN a.completed ELSE TRUE)
                  /\ [todos[X] EXCEPT !.completed = old.completed,
                                      !.updated_at = old.updated_at] = old

\* an update_task that supplied only an empty description cleared the description of a
\* task while the store held another task
C26_Witness ==
    /\ MutatedTask
    /\ last.tool = "update_task"
    /\ ~HasKey(last.arguments, "title")
    /\ last.arguments.description = <<>>
    /\ last.before[last.arguments.task_id].description # None
    /\ todos[last.arguments.task_id].description = None
    /\ Cardinality(DOMAIN todos) = 2

----------------------------------------------------------------------------
\* The titles of the stored tasks

\* C27: whatever add_task, update_task, create_todo and update_todo did, every stored
\* task has a title of 1 to 255 characters that is not blank after trimming
C27_TitleInvariant ==
    \A id \in DOMAIN todos :
        /\ StrLen(todos[id].title) >= 1
        /\ StrLen(todos[id].title) <= TitleMaxLen
        /\ strip(todos[id].title) # <<>>

----------------------------------------------------------------------------
\* Malformed entries in the normalization

\* the entries of the value tool_calls: of a list its items, of a dict the dict itself
EntriesOf(tool_calls) ==
    IF tool_calls.t = "list" THEN tool_calls.v
    ELSE IF tool_calls.t = "dict" THEN <<tool_calls>>
    ELSE <<>>

\* tc is a dict with the keys of the wire shape or with tool_call_id and tool_name
HasRequiredKeys(tc) ==
    \/ WireShape(tc)
    \/ tc.t = "dict" /\ HasKey(tc.v, "tool_call_id") /\ HasKey(tc.v, "tool_name")

\* out holds, in order, one wire entry per entry of kept, with its id and tool name
SameCalls(out, kept) ==
    /\ Len(out) = Len(kept)
    /\ \A k \in 1..Len(kept) :
          IF WireShape(kept[k]) THEN out[k] = kept[k].v
          ELSE /\ out[k].id = kept[k].v.tool_call_id
               /\ out[k].type = "function"
               /\ out[k].function.name = kept[k].v.tool_name

\* C28: _normalize_tool_calls answers every input, whether None, empty, a single dict
\* or a list mixing valid entries, non-dict items and dicts lacking the required keys,
\* with the list of the well-keyed entries in their original order, the others
\* dropped; _build_messages emits a history turn with these as tool_calls, and
\* without a tool_calls field when none is left
C28_MalformedDropped ==
    LET kept == SelectSeq(EntriesOf(last.arguments), HasRequiredKeys)
    IN  /\ last.tool = "_normalize_tool_calls" => SameCalls(last.res, kept)
        /\ last.tool = "_build_messages" =>
              /\ last.res.role = "assistant"
              /\ last.res.content = Text("")
              /\ IF kept = <<>>
                 THEN DOMAIN last.res = {"role", "content"}
                 ELSE /\ DOMAIN last.res = {"role", "content", "tool_calls"}
                      /\ SameCalls(last.res.tool_calls, kept)

\* a list of a storage entry, a non-dict item and a wire entry was normalized to the
\* two valid entries in their order
C28_Witness ==
    /\ last.tool = "_normalize_tool_calls"
    /\ last.arguments.t = "list"
    /\ Len(last.arguments.v) = 3
    /\ StorageShape(last.arguments.v[1])
    /\ last.arguments.v[1].v.tool_call_id = "call_2"
    /\ last.arguments.v[2] = PyOther
    /\ WireShape(last.arguments.v[3])
    /\ last.arguments.v[3].v.id = "call_1"
    /\ Len(last.res) = 2
    /\ last.res[1].id = "call_2"
    /\ last.res[2].id = "call_1"

----------------------------------------------------------------------------
\* Two chat requests in progress on one conversation, each in its own process with its
\* own database session; no lock is taken. The requests have passed the authorization
\* check and found the conversation (chat.py lines 164-209). save_message is two steps
\* here: the message and the conversation are stamped with the time read from the
\* clock (conversation.py lines 191-203), then the transaction commits (line 205);
\* the other request can stamp and commit in between. The completion capability
\* answers with text or fails.

InitConcurrent ==
    \E n \in {0, 2} :
        /\ todos = NoRows
        /\ next_todo_id = 1
        /\ clock = n + 2
        /\ conversations = PutRow(NoRows, [id |-> 1, user_id |-> "u1", title |-> None,
                                           created_at |-> 1, updated_at |-> n + 1])
        /\ messages = [i \in 1..n |-> StoredTurn(i)]
        /\ req = [r \in 1..2 |->
                    [f \in (DOMAIN IdleReq) \cup {"now"} |->
                        CASE f = "pc" -> "history"
                          [] f = "user" -> "u1"
                          [] f = "conversation_id" -> Some(1)
                          [] f = "conversation" -> 1
                          [] f = "text" -> (IF r = 1 THEN "one" ELSE "two")
                          [] f = "now" -> None
                          [] OTHER -> IdleReq[f]]]
        /\ nreq = 2
        /\ ncalls = 0
        /\ last = NoCall
        /\ api_key = TRUE
        /\ trace = [r \in 1..2 |-> NoTrace]

\* message = Message(...), conversation.updated_at = datetime.now(timezone.utc)
Stamp(r) ==
    /\ req[r].pc \in {"save_user", "persist"}
    /\ req[r].now = None
    /\ SetReq(r, [req[r] EXCEPT !.now = Some(clock)])
    /\ clock' = clock + 1
    /\ UNCHANGED <<todos, next_todo_id, conversations, messages, nreq, ncalls, last, api_key,
                   trace>>

\* db.commit() of save_message, for the user message (chat.py lines 224-233) and for
\* the assistant message (lines 266-312)
Commit(r) ==
    /\ req[r].pc \in {"save_user", "persist"}
    /\ req[r].now # None
    /\ \E s \in {IF req[r].pc = "save_user"
                 THEN save_message(messages, conversations, req[r].conversation, req[r].user,
                                   "user", Text(req[r].text), PyNone, TheVal(req[r].now))
                 ELSE save_message(messages, conversations, req[r].conversation, req[r].user,
                                   "assistant", Text(req[r].agent_response.message), PyNone,
                                   TheVal(req[r].now))} :
          /\ messages' = s.messages
          /\ conversations' = s.conversations
          /\ IF req[r].pc = "save_user"
             THEN /\ SetReq(r, [req[r] EXCEPT !.pc = IF s.raised THEN "idle" ELSE "run",
                                              !.now = None])
                  /\ IF s.raised
                     THEN SetTrace(r, [trace[r] EXCEPT !.http = InternalError500])
                     ELSE UNCHANGED trace
             ELSE /\ SetReq(r, [req[r] EXCEPT !.pc = "idle", !.now = None])
                  /\ SetTrace(r, [trace[r] EXCEPT !.http = IF s.raised THEN InternalError500
                                                           ELSE Ok200(req[r])])
    /\ UNCHANGED <<todos, next_todo_id, clock, nreq, ncalls, last, api_key>>

ConcurrentRun(r) ==
    /\ req[r].pc = "run"
    /\ RunWith(r, {[raised |-> b, response |-> TextResponse] : b \in BOOLEAN})

NextConcurrent ==
    \E r \in 1..2 :
        \/ LoadHistory(r)
        \/ Stamp(r)
        \/ Commit(r)
        \/ ConcurrentRun(r)

SpecConcurrent == InitConcurrent /\ [][NextConcurrent]_vars

----------------------------------------------------------------------------
\* Properties of the two concurrent requests

\* the rows of list that are the user turn of the request of slot r
UserTurnOf(list, r) ==
    {i \in 1..Len(list) : list[i].role = "user" /\ list[i].content = Text(req[r].text)}

\* C29: in every interleaving of two requests on one conversation no append is lost:
\* every commit adds its row after the rows already there, an assistant turn is
\* added after the user turn of its own request and carries a later time, the
\* conversation's updated_at is the value written by the latest commit, and when
\* both requests have answered both user turns and both assistant turns are stored,
\* one row for each of the four times stamped (the four clock values before the last)
C29_NoAppendLost ==
    [][/\ Len(messages') >= Len(messages)
       /\ SubSeq(messages', 1, Len(messages)) = messages
       /\ \A r \in 1..2 :
             (req[r].pc = "persist" /\ req'[r].pc = "idle") =>
                /\ Len(messages') = Len(messages) + 1
                /\ messages'[Len(messages')].role = "assistant"
                /\ messages'[Len(messages')].content = Text(req[r].agent_response.message)
                /\ Cardinality(UserTurnOf(messages, r)) = 1
                /\ \A i \in UserTurnOf(messages, r) :
                      messages[i].created_at < messages'[Len(messages')].created_at
       /\ Len(messages') > Len(messages) =>
             conversations'[1].updated_at = messages'[Len(messages')].created_at
       /\ (\A r \in 1..2 : req'[r].pc = "idle") =>
             /\ \A r \in 1..2 : Cardinality(UserTurnOf(messages', r)) = 1
             /\ \A t \in (clock' - 4)..(clock' - 1) :
                   Cardinality({i \in 1..Len(messages') : messages'[i].created_at = t}) = 1
             /\ Cardinality({i \in 1..Len(messages') :
                                messages'[i].role = "assistant"
                                /\ messages'[i].created_at >= clock' - 4}) = 2
             /\ conversations'[1].updated_at = messages'[Len(messages')].created_at]_vars

\* both requests have answered, and the commits did not happen in the order of the
\* stamps: the row committed last carries an earlier time than a row before it
C29_Witness ==
    /\ \A r \in DOMAIN req : req[r].pc = "idle" /\ trace[r].http # EmptyDict
    /\ DOMAIN req = 1..2
    /\ \E i \in 1..(Len(messages) - 1) :
          messages[i].created_at > messages[Len(messages)].created_at
    /\ conversations[1].updated_at = messages[Len(messages)].created_at
====
